---------------------------- MODULE Spec2Model ----------------------------
(***************************************************************************)
(* Model of the GoodWe MQTT bridge (src/goodwe_mqtt.py): the request       *)
(* handler run by the MQTT network thread, the poll loop run by the main   *)
(* thread, the lock both take, the inverter connection cache, and the      *)
(* response texts they publish.                                            *)
(*                                                                         *)
(* A text is a sequence of atoms.  An atom is either a whitespace          *)
(* character (" " or "\t") or a run of non-whitespace characters.  Tokens  *)
(* are the non-whitespace atoms of a text, as str.split() yields them.     *)
(***************************************************************************)
EXTENDS Integers, Sequences, FiniteSets, TLC

(***************************************************************************)
(* Bounds of the model.                                                    *)
(***************************************************************************)
\* inbound MQTT messages delivered over one run
MaxReq == 1
\* poll ticks started over one run
MaxTicks == 2
\* holding registers the simulated device exposes
NumRegs == 3
\* inbound messages handled one after another when the dispatcher is checked on its own
MaxDispatch == 2
\* POSTs the web API handles over one run
MaxPosts == 2

(***************************************************************************)
(* Text helpers.                                                           *)
(***************************************************************************)
WS == {" ", "\t"}

IsWord(a) == a \notin WS

\* str.split(): the maximal non-whitespace runs, in order
Split(text) == SelectSeq(text, IsWord)

RECURSIVE Join(_)
\* " ".join(tokens)
Join(tokens) ==
  IF tokens = <<>> THEN <<>>
  ELSE IF Len(tokens) = 1 THEN tokens
  ELSE <<Head(tokens), " ">> \o Join(Tail(tokens))

Digit == <<"0", "1", "2", "3", "4", "5", "6", "7", "8", "9">>

RECURSIVE DecNat(_)
DecNat(n) == IF n < 10 THEN Digit[n + 1] ELSE DecNat(n \div 10) \o Digit[(n % 10) + 1]

\* str(n) of an int
Dec(n) == IF n < 0 THEN "-" \o DecNat(0 - n) ELSE DecNat(n)

\* the integers whose decimal form a request token of the model may be
IntVocab == (-1 .. 20) \cup {999, 1234, 65535, 65536}

DecTable == [n \in IntVocab |-> Dec(n)]
IntTokens == {DecTable[n] : n \in IntVocab}

\* int(tok) succeeds (no ValueError)
IsInt(tok) == tok \in IntTokens

\* int(tok)
IntOf(tok) == CHOOSE n \in IntVocab : DecTable[n] = tok

\* str.lower() on the command words of the model's vocabulary
Lower(tok) ==
  CASE tok = "ALL" -> "all"
    [] tok = "Info" -> "info"
    [] tok = "PV" -> "pv"
    [] OTHER -> tok

\* the first whitespace-separated token of a text ("" when there is none)
FirstToken(text) == IF Split(text) = <<>> THEN "" ELSE Head(Split(text))

(***************************************************************************)
(* Configuration (gw_config): the inverter list and the poll interval.     *)
(***************************************************************************)
DefaultPort == 8899

Inv1 == [id |-> "inv1", host |-> "h1", port |-> DefaultPort]
Inv2 == [id |-> "inv2", host |-> "h2", port |-> DefaultPort]
Inv3 == [id |-> "inv3", host |-> "", port |-> DefaultPort]

\* the configurations a run may start from: no inverter and a poll interval below the
\* minimum, or three inverters (the last without a host) and one above it
Configs ==
  { [inverters |-> <<>>, poll_interval |-> 0],
    [inverters |-> <<Inv1, Inv2, Inv3>>, poll_interval |-> 6] }

Hosts == {"h1", "h2", ""}
Keys == {<<h, DefaultPort>> : h \in Hosts}


RECURSIVE Norm(_)
\* adjacent non-whitespace atoms are one run of characters
Norm(text) ==
  IF Len(text) < 2 THEN text
  ELSE IF IsWord(text[1]) /\ IsWord(text[2])
       THEN Norm(<<text[1] \o text[2]>> \o SubSeq(text, 3, Len(text)))
       ELSE <<text[1]>> \o Norm(Tail(text))

\* the tokens of a text
Tokens(text) == Split(Norm(text))

RECURSIVE JoinTexts(_)
\* " ".join(pairs), each pair a text
JoinTexts(pairs) ==
  IF pairs = <<>> THEN <<>>
  ELSE IF Len(pairs) = 1 THEN Head(pairs)
  ELSE Head(pairs) \o <<" ">> \o JoinTexts(Tail(pairs))

\* str.replace(' ', '_')
ReplaceSpace(text) == [i \in 1 .. Len(text) |-> IF text[i] = " " THEN "_" ELSE text[i]]

\* f"{cookie} OK {payload}"
OkLine(cookie, payload) == Norm(<<cookie, " ", "OK", " ">> \o payload)

\* f"{cookie} OK"
OkBare(cookie) == <<cookie, " ", "OK">>

\* f"{cookie} ERR {message}"
ErrLine(cookie, message) == Norm(<<cookie, " ", "ERR", " ">> \o message)

(***************************************************************************)
(* The device library (goodwe) and the devices behind it, as the bridge    *)
(* sees them.  env holds what the outside world does during one handler    *)
(* run: env.conn, whether a connect handshake succeeds, and env.io, how    *)
(* the device I/O of the run ends.                                         *)
(***************************************************************************)
IoKinds == {"ok", "fail"}
Envs == [conn : BOOLEAN, io : IoKinds]

\* messages of the exceptions the library raises
ConnectError == <<"connect", " ", "failed">>
IoError == <<"no", " ", "response">>
IllegalAddress == <<"illegal", " ", "data", " ", "address">>
IllegalValue == <<"illegal", " ", "data", " ", "value">>
ValueErrorMsg(tok) ==
  <<"invalid", " ", "literal", " ", "for", " ", "int()", " ", "with", " ", "base", " ",
    "10:", " ", "'" \o tok \o "'">>
OverflowMsg == <<"int", " ", "too", " ", "big", " ", "to", " ", "convert">>
NegativeMsg ==
  <<"can't", " ", "convert", " ", "negative", " ", "int", " ", "to", " ", "unsigned">>

\* registers of a device at power-up
InitRegs == [r \in 0 .. (NumRegs - 1) |-> 100 * (r + 1)]

Word16 == 65536

\* a mutant of ToBytes: the low byte first
ToBytesLittle(v) == <<v % 256, v \div 256>>

\* int.to_bytes(2, "big") of a value in 0 .. 65535
ToBytes(v) == <<v \div 256, v % 256>>

\* a mutant of Unpack: the first byte taken as the low one
UnpackLittle(hi, lo) == lo * 256 + hi

\* struct.unpack(">H", two bytes)
Unpack(hi, lo) == hi * 256 + lo

RECURSIVE RegBytes(_, _, _)
\* the bytes of count registers from offset
RegBytes(regs, offset, count) ==
  IF count <= 0 THEN <<>>
  ELSE ToBytes(regs[offset]) \o RegBytes(regs, offset + 1, count - 1)

\* static metadata of the inverter object connected at a host
ModelName(host) == IF host = "h1" THEN <<"GW5000">> ELSE <<"GW10K", " ", "ET">>
SerialNumber(host) == IF host = "h1" THEN <<"95000EHU">> ELSE <<"SN2">>
FamilyName(host) == IF host = "h1" THEN "ES" ELSE "ET"

FltV(k, cents) == [key |-> k, kind |-> "float", num |-> cents, text |-> <<>>]
BoolV(k, b) == [key |-> k, kind |-> "bool", num |-> IF b THEN 1 ELSE 0, text |-> <<>>]
IntV(k, n) == [key |-> k, kind |-> "int", num |-> n, text |-> <<>>]
StrV(k, t) == [key |-> k, kind |-> "str", num |-> 0, text |-> t]

\* what read_runtime_data() returns for the device at a host, in dict order
RuntimeData(host) ==
  IF host = "h1"
  THEN <<FltV("vpv1", 23050), IntV("battery_soc", 87),
         StrV("work_mode_label", <<"Normal", " ", "(On-Grid)">>), BoolV("backup", TRUE)>>
  ELSE <<FltV("vgrid", 0 - 5), StrV("grid_mode", <<"Idle">>)>>

\* what read_settings_data() returns for the device at a host
SettingsData(host) ==
  IF host = "h1"
  THEN <<IntV("grid_export_limit", 5000), BoolV("backup_supply", FALSE)>>
  ELSE <<StrV("time", <<"2024-01-01", " ", "12:00:00">>)>>

(***************************************************************************)
(* The bridge's state as the operations read and change it: the world w    *)
(* is [cache, att, ok, regs]: the connection cache (_inverter_cache, a     *)
(* dict from (host, port) to the inverter object), the connect handshakes  *)
(* attempted and succeeded per key, and the devices' registers.            *)
(***************************************************************************)
Res(text, exc, w, tag) == [text |-> text, exc |-> exc, w |-> w, tag |-> tag]

\* dict assignment d[k] = v
Put(d, k, v) == [x \in (DOMAIN d) \cup {k} |-> IF x = k THEN v ELSE d[x]]

\* dict.pop(k, None)
Pop(d, k) == [x \in (DOMAIN d) \ {k} |-> d[x]]

\* a mutant of Connect: the cache is not consulted
ConnectAlways(host, port, w, env) ==
  LET key == <<host, port>> IN
  IF env.conn
  THEN LET inv == [key |-> key, gen |-> w.ok[key] + 1] IN
       [exc |-> FALSE, msg |-> <<>>, inv |-> inv,
        w |-> [w EXCEPT !.cache = Put(w.cache, key, inv),
                        !.att[key] = @ + 1, !.ok[key] = @ + 1]]
  ELSE [exc |-> TRUE, msg |-> ConnectError, inv |-> [key |-> key, gen |-> 0],
        w |-> [w EXCEPT !.att[key] = @ + 1]]

\* a mutant of Connect: the handle of a failed handshake is cached all the same
ConnectCacheFailed(host, port, w, env) ==
  LET key == <<host, port>> IN
  IF key \in DOMAIN w.cache
  THEN [exc |-> FALSE, msg |-> <<>>, inv |-> w.cache[key], w |-> w]
  ELSE IF env.conn
  THEN LET inv == [key |-> key, gen |-> w.ok[key] + 1] IN
       [exc |-> FALSE, msg |-> <<>>, inv |-> inv,
        w |-> [w EXCEPT !.cache = Put(w.cache, key, inv),
                        !.att[key] = @ + 1, !.ok[key] = @ + 1]]
  ELSE [exc |-> TRUE, msg |-> ConnectError, inv |-> [key |-> key, gen |-> 0],
        w |-> [w EXCEPT !.cache = Put(w.cache, key, [key |-> key, gen |-> 0]),
                        !.att[key] = @ + 1]]

\* _connect: the cached inverter of (host, port), connecting when there is none
Connect(host, port, w, env) ==
  LET key == <<host, port>> IN
  IF key \in DOMAIN w.cache
  THEN [exc |-> FALSE, msg |-> <<>>, inv |-> w.cache[key], w |-> w]
  ELSE IF env.conn
  THEN LET inv == [key |-> key, gen |-> w.ok[key] + 1] IN
       [exc |-> FALSE, msg |-> <<>>, inv |-> inv,
        w |-> [w EXCEPT !.cache = Put(w.cache, key, inv),
                        !.att[key] = @ + 1, !.ok[key] = @ + 1]]
  ELSE [exc |-> TRUE, msg |-> ConnectError, inv |-> [key |-> key, gen |-> 0],
        w |-> [w EXCEPT !.att[key] = @ + 1]]

SENSOR_GROUPS ==
  [pv |-> {"vpv1", "ipv1", "ppv1", "pv1_mode", "vpv2", "ipv2", "ppv2", "pv2_mode",
           "vpv3", "ipv3", "ppv3", "pv3_mode", "vpv4", "ipv4", "ppv4", "pv4_mode"},
   battery |-> {"vbattery1", "ibattery1", "pbattery1", "battery_mode", "battery_soc",
                "battery_soh", "battery_temperature", "battery_status",
                "battery_charge_limit", "battery_discharge_limit", "battery_error",
                "battery_warning", "battery_bms", "battery_index",
                "battery_temperature_bms", "battery_charge_limit_bms",
                "battery_discharge_limit_bms", "battery_soc_bms"},
   grid |-> {"vgrid", "igrid", "pgrid", "fgrid", "grid_mode",
             "vgrid2", "igrid2", "pgrid2", "fgrid2", "grid_mode2",
             "vgrid3", "igrid3", "pgrid3", "fgrid3", "grid_mode3",
             "vload", "iload", "pload", "fload", "load_mode",
             "apparent_power", "reactive_power", "power_factor",
             "meter_power", "meter_power2", "meter_power3"},
   energy |-> {"e_total", "h_total", "e_day", "e_load_day", "e_load_total",
               "total_power", "active_power", "e_battery_charge_day",
               "e_battery_charge_total", "e_battery_discharge_day",
               "e_battery_discharge_total", "e_grid_export", "e_grid_import",
               "e_grid_export_day", "e_grid_import_day"},
   system |-> {"work_mode", "work_mode_label", "temperature", "temperature2",
               "error_codes", "warning_code", "safety_country", "safety_country_label",
               "diagnose_result", "diagnose_result_label", "effective_work_mode"}]

\* f"{value:.2f}" of a float given in hundredths
FmtFloat(c) ==
  LET a == IF c < 0 THEN 0 - c ELSE c IN
  (IF c < 0 THEN "-" ELSE "") \o DecNat(a \div 100) \o "."
     \o Digit[((a % 100) \div 10) + 1] \o Digit[(a % 10) + 1]

\* the text a value is published as (lines 381-386)
FormatValue(v) ==
  CASE v.kind = "float" -> <<FmtFloat(v.num)>>
    [] v.kind = "bool" -> <<IF v.num = 1 THEN "1" ELSE "0">>
    [] v.kind = "int" -> <<Dec(v.num)>>
    [] OTHER -> ReplaceSpace(v.text)

\* f"{key}={formatted}"
Pair(v) == Norm(<<v.key \o "=">> \o FormatValue(v))

\* a mutant of Pairs: every pair is kept
PairsUnfiltered(data, all, wanted) == [i \in 1 .. Len(data) |-> Pair(data[i])]

\* the pairs of a data dict whose key is wanted, in dict order
Pairs(data, all, wanted) ==
  LET keep(v) == all \/ v.key \in wanted
      kept == SelectSeq(data, keep)
  IN [i \in 1 .. Len(kept) |-> Pair(kept[i])]

\* _device_info
DeviceInfo(host, port, cookie, w, env) ==
  LET c == Connect(host, port, w, env) IN
  IF c.exc THEN Res(ErrLine(cookie, c.msg), FALSE, c.w, "connfail")
  ELSE Res(OkLine(cookie, <<"model=">> \o ModelName(host) \o <<" ", "serial=">>
                          \o SerialNumber(host) \o <<" ", "family=" \o FamilyName(host)>>),
           FALSE, c.w, "ok")

\* a mutant of QuerySensors: a group without a pair is an error
QuerySensorsStrict(host, port, cookie, group, w, env) ==
  LET c == Connect(host, port, w, env) IN
  IF c.exc THEN Res(ErrLine(cookie, c.msg), FALSE, c.w, "connfail")
  ELSE IF env.io = "fail" THEN Res(ErrLine(cookie, IoError), FALSE, c.w, "iofail")
  ELSE LET wanted == IF group = "all" THEN {} ELSE SENSOR_GROUPS[group]
           pairs == Pairs(RuntimeData(host), group = "all", wanted)
       IN IF pairs = <<>>
          THEN Res(ErrLine(cookie, <<"no", " ", "data">>), FALSE, c.w, "invalid")
          ELSE Res(OkLine(cookie, JoinTexts(pairs)), FALSE, c.w, "ok")

\* _query_sensors
QuerySensors(host, port, cookie, group, w, env) ==
  LET c == Connect(host, port, w, env) IN
  IF c.exc THEN Res(ErrLine(cookie, c.msg), FALSE, c.w, "connfail")
  ELSE IF env.io = "fail" THEN Res(ErrLine(cookie, IoError), FALSE, c.w, "iofail")
  ELSE IF group # "all" /\ group \notin DOMAIN SENSOR_GROUPS
  THEN Res(ErrLine(cookie, <<"unknown", " ", "group", " ", "'" \o group \o "'">>),
           FALSE, c.w, "invalid")
  ELSE LET wanted == IF group = "all" THEN {} ELSE SENSOR_GROUPS[group] IN
       Res(OkLine(cookie, JoinTexts(Pairs(RuntimeData(host), group = "all", wanted))),
           FALSE, c.w, "ok")

\* _query_settings
QuerySettings(host, port, cookie, w, env) ==
  LET c == Connect(host, port, w, env) IN
  IF c.exc THEN Res(ErrLine(cookie, c.msg), FALSE, c.w, "connfail")
  ELSE IF env.io = "fail" THEN Res(ErrLine(cookie, IoError), FALSE, c.w, "iofail")
  ELSE Res(OkLine(cookie, JoinTexts(Pairs(SettingsData(host), TRUE, {}))), FALSE, c.w, "ok")

\* the device accepts a request for count registers from offset
InRange(offset, count) == offset >= 0 /\ count >= 1 /\ offset + count <= NumRegs

RECURSIVE Values(_, _, _)
\* lines 415-418: the values of raw[i], raw[i + 1] for i = from, from + 2, ... below upto
Values(raw, from, upto) ==
  IF from >= upto THEN <<>>
  ELSE <<Dec(Unpack(raw[from + 1], raw[from + 2]))>> \o Values(raw, from + 2, upto)

\* a mutant of Min: the length of the response alone bounds the loop
MinRight(a, b) == b

Min(a, b) == IF a < b THEN a ELSE b

\* how a read may end beyond IoKinds: the response_data() of the device is a register
\* short of what was asked for, a byte short of it, or carries bytes beyond it
ReadKinds == IoKinds \cup {"short", "odd", "long"}
ReadEnvs == [conn : BOOLEAN, io : ReadKinds]

\* the bytes a device appends to a response that is longer than asked for
Surplus == <<0, 7>>

\* resp.response_data() of a read of count registers from offset that the device answers
ResponseData(regs, offset, count, kind) ==
  LET full == IF InRange(offset, count) THEN RegBytes(regs, offset, count) ELSE <<>> IN
  CASE kind = "short" -> SubSeq(full, 1, Len(full) - 2)
    [] kind = "odd" -> SubSeq(full, 1, Len(full) - 1)
    [] kind = "long" -> full \o Surplus
    [] OTHER -> full

\* the device answers the read: the registers asked for are its own, or it is one that
\* sends bytes whatever is asked for
Answers(offset, count, kind) == InRange(offset, count) \/ (kind = "long" /\ count < 1)

\* struct.error of unpack(">H", ...) on a slice of one byte
UnpackError ==
  <<"unpack", " ", "requires", " ", "a", " ", "buffer", " ", "of", " ", "2", " ", "bytes">>

\* _read_registers
ReadRegisters(inverter, cookie, offset, count, w, env) ==
  IF env.io = "fail" THEN Res(ErrLine(cookie, IoError), FALSE, w, "iofail")
  ELSE IF ~Answers(offset, count, env.io)
  THEN Res(ErrLine(cookie, IllegalAddress), FALSE, w, "rejected")
  ELSE LET raw == ResponseData(w.regs[inverter.key], offset, count, env.io)
           upto == Min(count * 2, Len(raw))
       IN IF upto > 0 /\ upto % 2 = 1
          THEN Res(ErrLine(cookie, UnpackError), FALSE, w, "truncated")
          ELSE Res(OkLine(cookie, Join(Values(raw, 0, upto))), FALSE, w, "ok")

\* a mutant of WriteRegister: the device answers and stores nothing
WriteRegisterNoop(inverter, cookie, reg, value, w, env) ==
  IF env.io = "fail" THEN Res(ErrLine(cookie, IoError), FALSE, w, "iofail")
  ELSE Res(OkBare(cookie), FALSE, w, "ok")

\* a mutant of WriteRegister: only the low byte of the value is stored
WriteRegisterLowByte(inverter, cookie, reg, value, w, env) ==
  IF env.io = "fail" THEN Res(ErrLine(cookie, IoError), FALSE, w, "iofail")
  ELSE IF ~InRange(reg, 1) THEN Res(ErrLine(cookie, IllegalAddress), FALSE, w, "rejected")
  ELSE IF value < 0 \/ value >= Word16
  THEN Res(ErrLine(cookie, IllegalValue), FALSE, w, "rejected")
  ELSE Res(OkBare(cookie), FALSE, [w EXCEPT !.regs[inverter.key][reg] = value % 256], "ok")

\* _write_register
WriteRegister(inverter, cookie, reg, value, w, env) ==
  IF env.io = "fail" THEN Res(ErrLine(cookie, IoError), FALSE, w, "iofail")
  ELSE IF ~InRange(reg, 1) THEN Res(ErrLine(cookie, IllegalAddress), FALSE, w, "rejected")
  ELSE IF value < 0 \/ value >= Word16
  THEN Res(ErrLine(cookie, IllegalValue), FALSE, w, "rejected")
  ELSE Res(OkBare(cookie), FALSE, [w EXCEPT !.regs[inverter.key][reg] = value], "ok")

\* _write_multi
WriteMulti(inverter, cookie, offset, values_bytes, w, env) ==
  LET n == Len(values_bytes) \div 2 IN
  IF env.io = "fail" THEN Res(ErrLine(cookie, IoError), FALSE, w, "iofail")
  ELSE IF ~InRange(offset, n) THEN Res(ErrLine(cookie, IllegalAddress), FALSE, w, "rejected")
  ELSE Res(OkBare(cookie), FALSE,
           [w EXCEPT !.regs[inverter.key] =
              [r \in DOMAIN @ |->
                 IF r >= offset /\ r < offset + n
                 THEN Unpack(values_bytes[2 * (r - offset) + 1], values_bytes[2 * (r - offset) + 2])
                 ELSE @[r]]],
           "ok")

RECURSIVE ValueBytes(_)
\* lines 306-308: the bytes of the value tokens, or the first exception
ValueBytes(toks) ==
  IF toks = <<>> THEN [exc |-> FALSE, msg |-> <<>>, data |-> <<>>]
  ELSE IF ~IsInt(Head(toks))
  THEN [exc |-> TRUE, msg |-> ValueErrorMsg(Head(toks)), data |-> <<>>]
  ELSE IF IntOf(Head(toks)) < 0
  THEN [exc |-> TRUE, msg |-> NegativeMsg, data |-> <<>>]
  ELSE IF IntOf(Head(toks)) >= Word16
  THEN [exc |-> TRUE, msg |-> OverflowMsg, data |-> <<>>]
  ELSE LET rest == ValueBytes(Tail(toks)) IN
       IF rest.exc THEN rest
       ELSE [exc |-> FALSE, msg |-> <<>>, data |-> ToBytes(IntOf(Head(toks))) \o rest.data]

\* a mutant of GetInverter: an id that is not configured gets the first inverter
GetInverterDefault(inverters, inverter_id) ==
  IF \E i \in 1 .. Len(inverters) : inverters[i].id = inverter_id
  THEN CHOOSE i \in 1 .. Len(inverters) :
         /\ inverters[i].id = inverter_id
         /\ \A j \in 1 .. (i - 1) : inverters[j].id # inverter_id
  ELSE IF inverters = <<>> THEN 0 ELSE 1

\* a mutant of GetInverter: the first configured inverter serves every id
GetInverterFirst(inverters, inverter_id) == IF inverters = <<>> THEN 0 ELSE 1

\* _get_inverter: the index of the first configured inverter with the id, 0 for None
GetInverter(inverters, inverter_id) ==
  IF \E i \in 1 .. Len(inverters) : inverters[i].id = inverter_id
  THEN CHOOSE i \in 1 .. Len(inverters) :
         /\ inverters[i].id = inverter_id
         /\ \A j \in 1 .. (i - 1) : inverters[j].id # inverter_id
  ELSE 0

NamedGroups == {"pv", "battery", "grid", "energy", "system", "all"}

\* a mutant of RegisterOp: the function code and the presence of the write value are
\* checked before the connection is asked for
RegisterOpCheckFirst(parts, cookie, host, port, func, reg, count, w, env) ==
  IF func \notin {3, 4, 6, 16}
  THEN Res(ErrLine(cookie, <<"unsupported", " ", "function", " ", Dec(func)>>),
           FALSE, w, "invalid")
  ELSE IF func = 6 /\ Len(parts) < 6
  THEN Res(ErrLine(cookie, <<"missing", " ", "write", " ", "value">>), FALSE, w, "invalid")
  ELSE IF func = 16 /\ Len(parts) < 6
  THEN Res(ErrLine(cookie, <<"missing", " ", "write", " ", "values">>), FALSE, w, "invalid")
  ELSE
  LET c == Connect(host, port, w, env) IN
  IF c.exc THEN Res(c.msg, TRUE, c.w, "connfail")
  ELSE IF func \in {3, 4} THEN ReadRegisters(c.inv, cookie, reg, count, c.w, env)
  ELSE IF func = 6
  THEN IF ~IsInt(parts[6]) THEN Res(ValueErrorMsg(parts[6]), TRUE, c.w, "raised")
       ELSE WriteRegister(c.inv, cookie, reg, IntOf(parts[6]), c.w, env)
  ELSE LET d == ValueBytes(SubSeq(parts, 6, Len(parts))) IN
       IF d.exc THEN Res(d.msg, TRUE, c.w, "raised")
       ELSE WriteMulti(c.inv, cookie, reg, d.data, c.w, env)

\* lines 294-311 of _handle_request: the register operation, once the numbers are parsed
RegisterOp(parts, cookie, host, port, func, reg, count, w, env) ==
  LET c == Connect(host, port, w, env) IN
  IF c.exc THEN Res(c.msg, TRUE, c.w, "connfail")
  ELSE IF func \in {3, 4} THEN ReadRegisters(c.inv, cookie, reg, count, c.w, env)
  ELSE IF func = 6
  THEN IF Len(parts) < 6
       THEN Res(ErrLine(cookie, <<"missing", " ", "write", " ", "value">>), FALSE, c.w, "invalid")
       ELSE IF ~IsInt(parts[6]) THEN Res(ValueErrorMsg(parts[6]), TRUE, c.w, "raised")
       ELSE WriteRegister(c.inv, cookie, reg, IntOf(parts[6]), c.w, env)
  ELSE IF func = 16
  THEN IF Len(parts) < 6
       THEN Res(ErrLine(cookie, <<"missing", " ", "write", " ", "values">>), FALSE, c.w, "invalid")
       ELSE LET d == ValueBytes(SubSeq(parts, 6, Len(parts))) IN
            IF d.exc THEN Res(d.msg, TRUE, c.w, "raised")
            ELSE WriteMulti(c.inv, cookie, reg, d.data, c.w, env)
  ELSE Res(ErrLine(cookie, <<"unsupported", " ", "function", " ", Dec(func)>>),
           FALSE, c.w, "invalid")

\* a mutant of InvalidFormat: the cookie of a short request is always "0"
InvalidFormatNoCookie(parts, w) ==
  Res(ErrLine("0", <<"invalid", " ", "format:", " ", "need", " ", "COOKIE", " ",
                     "INVERTER_ID", " ", "FUNC", " ", "...">>), FALSE, w, "invalid")

\* lines 260-261: the answer to a request of fewer than three tokens
InvalidFormat(parts, w) ==
  Res(ErrLine(IF parts # <<>> THEN parts[1] ELSE "0",
              <<"invalid", " ", "format:", " ", "need", " ", "COOKIE", " ",
                "INVERTER_ID", " ", "FUNC", " ", "...">>), FALSE, w, "invalid")

\* a mutant of HostMissing: an empty host is taken for a host
HostMissingNever(host) == FALSE

\* line 272: if not host
HostMissing(host) == host = ""

\* _handle_request: the response line, or the exception that escapes (exc)
HandleRequest(payload, inverters, w, env) ==
  LET parts == Tokens(payload) IN
  IF Len(parts) < 3
  THEN InvalidFormat(parts, w)
  ELSE
  LET cookie == parts[1]
      inverter_id == parts[2]
      i == GetInverter(inverters, inverter_id)
  IN
  IF i = 0
  THEN Res(ErrLine(cookie, <<"unknown", " ", "inverter", " ", "id", " ",
                              "'" \o inverter_id \o "'">>), FALSE, w, "invalid")
  ELSE
  LET host == inverters[i].host
      port == inverters[i].port
      cmd == Lower(parts[3])
  IN
  IF HostMissing(host)
  THEN Res(ErrLine(cookie, <<"inverter", " ", inverter_id, " ", "has", " ", "no", " ",
                              "host", " ", "configured">>), FALSE, w, "invalid")
  ELSE IF cmd = "info" THEN DeviceInfo(host, port, cookie, w, env)
  ELSE IF cmd \in NamedGroups THEN QuerySensors(host, port, cookie, cmd, w, env)
  ELSE IF cmd = "settings" THEN QuerySettings(host, port, cookie, w, env)
  ELSE IF Len(parts) < 5
  THEN Res(ErrLine(cookie, <<"invalid", " ", "format:", " ", "need", " ", "COOKIE", " ",
                              "INVERTER_ID", " ", "FUNC", " ", "REG", " ", "COUNT">>),
           FALSE, w, "invalid")
  ELSE IF ~(IsInt(parts[3]) /\ IsInt(parts[4]) /\ IsInt(parts[5]))
  THEN Res(ErrLine(cookie, <<"invalid", " ", "numeric", " ", "values">>), FALSE, w, "invalid")
  ELSE RegisterOp(parts, cookie, host, port, IntOf(parts[3]), IntOf(parts[4]),
                  IntOf(parts[5]), w, env)

\* a mutant of Handled: an exception that escapes _handle_request is not caught
HandledNoCatch(payload, inverters, w, env) == HandleRequest(payload, inverters, w, env)

\* a mutant of Handled: an escaped exception is answered under the cookie "0"
HandledNoCookie(payload, inverters, w, env) ==
  LET r == HandleRequest(payload, inverters, w, env) IN
  IF r.exc THEN [r EXCEPT !.text = ErrLine("0", r.text)] ELSE r

\* lines 238-244 of _on_message: _handle_request, an exception turned into an ERR line
Handled(payload, inverters, w, env) ==
  LET r == HandleRequest(payload, inverters, w, env)
      parts == Tokens(payload)
  IN
  IF r.exc
  THEN [r EXCEPT !.text = ErrLine(IF parts # <<>> THEN parts[1] ELSE "0", r.text)]
  ELSE r

(***************************************************************************)
(* The bridge as a state machine.  Two threads run: the MQTT network       *)
(* thread, which calls _on_message for one inbound message at a time, and  *)
(* the main thread, which runs the loop of run().  A signal handler may    *)
(* clear the running flag at any moment.                                   *)
(***************************************************************************)
VARIABLES
  inverters,      \* gw_config["inverters"]
  poll_interval,  \* gw_config["poll_interval"]
  running,        \* self.running
  locked,         \* self.lock is held
  cache,          \* self._inverter_cache
  poll_seq,       \* self.poll_seq
  regs,           \* the registers of the device behind each key
  published,      \* the client.publish calls on the response topic, in order: who made each
  pubNow,         \* the texts handed to client.publish by the step just taken
  loopStarted,    \* the MQTT network thread runs (loop_start .. loop_stop)
  connected,      \* the MQTT client is connected (connect .. disconnect)
  reqPc,          \* where the network thread is in _on_message
  reqNo,          \* the inbound messages delivered so far
  payload,        \* the payload of the message being handled
  result,         \* the local variable result of _on_message
  reqObs,         \* what the last _handle_request did: [tag, exc, key, cached]
  pollPc,         \* where the main thread is in run()
  pollIdx,        \* the position of _poll_all's for loop in the inverter list
  sleepLeft,      \* the iterations left of the sleep loop (lines 507-510)
  slept,          \* the time.sleep(1) calls made by the sleep loop entered last
  tickLog,        \* what _poll_inverter did for each inverter of the current tick
  att,            \* connect handshakes attempted per key
  okc,            \* connect handshakes that succeeded per key
  evicted,        \* cache entries popped per key
  written,        \* per key and register: the value the last successful write-one put
                  \* there, NotWritten when none did or a write-many came after it
  catalog,        \* the sensor catalog of a device: (offset, byteSize) per sensor
  ranges,         \* the register ranges discovered for it: [known, list]
  goodweFile,     \* the content of the bridge's configuration file (GOODWE_CONFIG)
  bootFile,       \* the content that file had when the running bridge loaded it
  confFile,       \* the lines of the gateway's configuration file (CONFIG_PATH)
  web             \* the last POST the web API handled: [api, posted, reply, wrote, restart, seq]

vars ==
  <<inverters, poll_interval, running, locked, cache, poll_seq, regs, published,
    pubNow, loopStarted, connected, reqPc, reqNo, payload, result, reqObs, pollPc, pollIdx,
    sleepLeft, slept, tickLog, att, okc, evicted, written, catalog, ranges,
    goodweFile, bootFile, confFile, web>>

reqVars == <<reqPc, reqNo, payload, result, reqObs>>
pollVars == <<pollPc, pollIdx, sleepLeft, slept, tickLog, poll_seq>>
worldVars == <<cache, regs, att, okc, evicted, written>>
cfgVars == <<inverters, poll_interval>>
rangeVars == <<catalog, ranges>>
webVars == <<goodweFile, bootFile, confFile, web>>
mqttVars == <<loopStarted, connected>>

\* a step that publishes nothing
Quiet == pubNow' = <<>> /\ UNCHANGED published

\* the world the operations read
World == [cache |-> cache, att |-> att, ok |-> okc, regs |-> regs]

Max(a, b) == IF a > b THEN a ELSE b

MinInterval == 5

\* a mutant of Interval: the configured value is taken as it is
IntervalUnclamped == poll_interval

\* line 497: interval = max(int(poll_interval), 5)
Interval == Max(poll_interval, MinInterval)

NoKey == <<"-", 0>>

NotWritten == 0 - 1

\* the cache key of the inverter a request addresses, NoKey when it resolves to none
TargetKey(text) ==
  LET parts == Tokens(text)
      i == IF Len(parts) < 3 THEN 0 ELSE GetInverter(inverters, parts[2])
  IN IF i = 0 \/ inverters[i].host = "" THEN NoKey
     ELSE <<inverters[i].host, inverters[i].port>>

\* the inbound payloads of the model
Requests ==
  { <<"c1">>,
    <<"c2", " ", "inv3", " ", "all">>,
    <<" ", "c3", "\t", "inv1", " ", "ALL">>,
    <<"c5", " ", "inv1", " ", "3", " ", "0", " ", "2">>,
    <<"c6", " ", "inv1", " ", "6", " ", "1", " ", "1", " ", "999">>,
    <<"c7", " ", "inv2", " ", "6", " ", "0", " ", "1", " ", "x">>,
    <<"c4", " ", "nope", " ", "3", " ", "0", " ", "1">>,
    <<"c8", " ", "inv1", " ", "3", " ", "0">>,
    <<"c9", " ", "inv1", " ", "3", " ", "x", " ", "1">> }

\* a configuration file in the multi-inverter format that holds the configuration cfg
MultiFile(cfg) == [inverters |-> cfg.inverters, poll_interval |-> cfg.poll_interval]

\* the gateway's configuration file before the web API writes it
OriginalConf == <<"config mqtt", "\toption host 'broker'">>

\* no POST was handled yet
NoPost ==
  [api |-> "none", posted |-> <<>>, reply |-> [code |-> 0, error |-> "", details |-> <<>>],
   wrote |-> FALSE, restart |-> FALSE, seq |-> 0]

\* the bridge constructed over the configuration cfg that load_goodwe_config made of
\* the file (__init__), before a device with the sensor catalog cat
Start(cfg, cat, file) ==
  /\ inverters = cfg.inverters
  /\ poll_interval = cfg.poll_interval
  /\ running = TRUE
  /\ locked = FALSE
  /\ cache = <<>>
  /\ poll_seq = 0
  /\ regs = [k \in Keys |-> InitRegs]
  /\ published = <<>>
  /\ pubNow = <<>>
  /\ loopStarted = TRUE
  /\ connected = TRUE
  /\ reqPc = "idle"
  /\ reqNo = 0
  /\ payload = <<>>
  /\ result = <<>>
  /\ reqObs = [tag |-> "none", exc |-> FALSE, key |-> NoKey, cached |-> FALSE]
  /\ pollPc = "loop"
  /\ pollIdx = 0
  /\ sleepLeft = 0
  /\ slept = 0
  /\ tickLog = <<>>
  /\ att = [k \in Keys |-> 0]
  /\ okc = [k \in Keys |-> 0]
  /\ evicted = [k \in Keys |-> 0]
  /\ written = [k \in Keys |-> [r \in 0 .. (NumRegs - 1) |-> NotWritten]]
  /\ catalog = cat
  /\ ranges = [known |-> FALSE, list |-> <<>>]
  /\ goodweFile = file
  /\ bootFile = file
  /\ confFile = OriginalConf
  /\ web = NoPost

Init == \E cfg \in Configs : Start(cfg, <<>>, MultiFile(cfg))

(***************************************************************************)
(* The lock (threading.Lock): "with self.lock" blocks while it is held.    *)
(***************************************************************************)
\* a mutant of CanAcquire: the lock never blocks
CanAcquireAlways == TRUE

\* the lock can be taken
CanAcquire == ~locked

(***************************************************************************)
(* _on_message, run by the network thread.                                 *)
(***************************************************************************)
\* the network thread delivers an inbound message: _on_message starts (lines 232-235)
Deliver(p) ==
  /\ reqPc = "idle"
  /\ loopStarted
  /\ reqNo < MaxReq
  /\ reqPc' = "lock"
  /\ reqNo' = reqNo + 1
  /\ payload' = p
  /\ UNCHANGED <<result, reqObs, pollVars, worldVars, cfgVars, rangeVars, webVars, mqttVars,
                 running, locked>>
  /\ Quiet

\* the register a successful write request of the payload wrote for the key: the value
\* of a write-one, NotWritten under a write-many, what was recorded before otherwise
WrittenAfter(text, ok, key, r, before) ==
  LET parts == Tokens(text) IN
  IF ~(ok /\ key = TargetKey(text) /\ Len(parts) >= 6) THEN before
  ELSE IF parts[3] = "6" /\ parts[4] = DecTable[r] THEN IntOf(parts[6])
  ELSE IF parts[3] = "16" /\ IntOf(parts[4]) <= r /\ r < IntOf(parts[4]) + (Len(parts) - 5)
  THEN NotWritten
  ELSE before

\* line 237: with self.lock
ReqAcquire ==
  /\ reqPc = "lock"
  /\ CanAcquire
  /\ locked' = TRUE
  /\ reqPc' = "cs"
  /\ UNCHANGED <<reqNo, payload, result, reqObs, pollVars, worldVars, cfgVars,
                 rangeVars, webVars, mqttVars,
                 running>>
  /\ Quiet

\* lines 238-244: the request is handled, an exception becoming an ERR line
ReqHandle(env) ==
  /\ reqPc = "cs"
  /\ LET r == Handled(payload, inverters, World, env) IN
     /\ result' = r.text
     /\ cache' = r.w.cache
     /\ regs' = r.w.regs
     /\ att' = r.w.att
     /\ okc' = r.w.ok
     /\ reqObs' = [tag |-> r.tag, exc |-> r.exc, key |-> TargetKey(payload),
                   cached |-> TargetKey(payload) \in DOMAIN cache]
     /\ written' = [k \in Keys |-> [x \in 0 .. (NumRegs - 1) |->
                       WrittenAfter(payload, r.tag = "ok", k, x, written[k][x])]]
  /\ reqPc' = "exit"
  /\ UNCHANGED <<reqNo, payload, pollVars, evicted, cfgVars, rangeVars, webVars, mqttVars,
                 running, locked>>
  /\ Quiet

\* a mutant of ReqRelease: the lock is released only when no exception was caught
ReqReleaseOnSuccess ==
  /\ reqPc = "exit"
  /\ locked' = (locked /\ reqObs.exc)
  /\ reqPc' = "publish"
  /\ UNCHANGED <<reqNo, payload, result, reqObs, pollVars, worldVars, cfgVars,
                 rangeVars, webVars, mqttVars,
                 running>>
  /\ Quiet

\* the end of the with block of line 237: the lock is released
ReqRelease ==
  /\ reqPc = "exit"
  /\ locked' = FALSE
  /\ reqPc' = "publish"
  /\ UNCHANGED <<reqNo, payload, result, reqObs, pollVars, worldVars, cfgVars,
                 rangeVars, webVars, mqttVars,
                 running>>
  /\ Quiet

\* who published: a request ("req", its number) or a poll ("poll", the tick, the inverter)
Msg(src, n, dev) == [src |-> src, n |-> n, dev |-> dev]

NoObs == [tag |-> "none", exc |-> FALSE, key |-> NoKey, cached |-> FALSE]

\* a mutant of ReqPublish: the ERR line of a caught exception is logged and not published
ReqPublishNoErr ==
  /\ reqPc = "publish"
  /\ published' = IF reqObs.exc THEN published ELSE Append(published, Msg("req", reqNo, 0))
  /\ pubNow' = IF reqObs.exc THEN <<>> ELSE <<result>>
  /\ reqPc' = "idle"
  /\ payload' = <<>>
  /\ result' = <<>>
  /\ reqObs' = NoObs
  /\ UNCHANGED <<reqNo, pollVars, worldVars, cfgVars, rangeVars, webVars, mqttVars,
                 running, locked>>

\* lines 246-247: the response is published and _on_message returns (its locals are gone)
ReqPublish ==
  /\ reqPc = "publish"
  /\ published' = Append(published, Msg("req", reqNo, 0))
  /\ pubNow' = <<result>>
  /\ reqPc' = "idle"
  /\ payload' = <<>>
  /\ result' = <<>>
  /\ reqObs' = NoObs
  /\ UNCHANGED <<reqNo, pollVars, worldVars, cfgVars, rangeVars, webVars, mqttVars,
                 running, locked>>

(***************************************************************************)
(* run(), _poll_all and _poll_inverter, run by the main thread.            *)
(***************************************************************************)
\* a mutant of PollCookie: the cookie carries the sequence value of the tick before
PollCookiePrevious(seq, inv_id) == "poll_" \o Dec(seq - 1) \o "_" \o inv_id

\* f"poll_{self.poll_seq}_{inv_id}"
PollCookie(seq, inv_id) == "poll_" \o Dec(seq) \o "_" \o inv_id

\* a mutant of PollOne: a failed query is not caught in _poll_inverter
PollOneNoCatch(inv_cfg, seq, w, env) ==
  IF inv_cfg.host = ""
  THEN [pub |-> <<>>, w |-> w, tag |-> "skipped", raise |-> FALSE]
  ELSE LET r == QuerySensors(inv_cfg.host, inv_cfg.port, PollCookie(seq, inv_cfg.id),
                             "all", w, env)
       IN IF r.tag \in {"connfail", "iofail"}
          THEN [pub |-> <<>>, w |-> r.w, tag |-> r.tag, raise |-> TRUE]
          ELSE [pub |-> <<r.text>>, w |-> r.w, tag |-> r.tag, raise |-> FALSE]

\* a mutant of PollOne: a failed query evicts every cached connection
PollOneEvictAll(inv_cfg, seq, w, env) ==
  IF inv_cfg.host = ""
  THEN [pub |-> <<>>, w |-> w, tag |-> "skipped", raise |-> FALSE]
  ELSE LET r == QuerySensors(inv_cfg.host, inv_cfg.port, PollCookie(seq, inv_cfg.id),
                             "all", w, env)
       IN IF r.tag \in {"connfail", "iofail"}
          THEN [pub |-> <<r.text>>, w |-> [r.w EXCEPT !.cache = <<>>], tag |-> r.tag,
                raise |-> FALSE]
          ELSE [pub |-> <<r.text>>, w |-> r.w, tag |-> r.tag, raise |-> FALSE]

\* a mutant of PollOne: the line is published twice
PollOneTwice(inv_cfg, seq, w, env) ==
  IF inv_cfg.host = ""
  THEN [pub |-> <<>>, w |-> w, tag |-> "skipped", raise |-> FALSE]
  ELSE LET r == QuerySensors(inv_cfg.host, inv_cfg.port, PollCookie(seq, inv_cfg.id),
                             "all", w, env)
       IN [pub |-> <<r.text, r.text>>, w |-> r.w, tag |-> r.tag, raise |-> FALSE]

\* a mutant of PollOne: an inverter without a host is polled like the others
PollOneAnyHost(inv_cfg, seq, w, env) ==
  LET r == QuerySensors(inv_cfg.host, inv_cfg.port, PollCookie(seq, inv_cfg.id),
                        "all", w, env)
  IN [pub |-> <<r.text>>, w |-> r.w, tag |-> r.tag, raise |-> FALSE]

\* _poll_inverter: what it publishes (pub), the world it leaves, what happened (tag), and
\* whether an exception escapes it (raise).  _query_sensors returns a line on every
\* path (r.exc is never set), so the handler of lines 455-457 is entered only if it
\* raised, and nothing escapes _poll_inverter.
PollOne(inv_cfg, seq, w, env) ==
  IF inv_cfg.host = ""
  THEN [pub |-> <<>>, w |-> w, tag |-> "skipped", raise |-> FALSE]
  ELSE LET r == QuerySensors(inv_cfg.host, inv_cfg.port, PollCookie(seq, inv_cfg.id),
                             "all", w, env)
       IN IF r.exc
          THEN [pub |-> <<>>,
                w |-> [r.w EXCEPT !.cache = Pop(@, <<inv_cfg.host, inv_cfg.port>>)],
                tag |-> "evicted", raise |-> FALSE]
          ELSE [pub |-> <<r.text>>, w |-> r.w, tag |-> r.tag, raise |-> FALSE]

\* line 499: while self.running fails: the loop is left
LoopExit ==
  /\ pollPc = "loop"
  /\ ~running
  /\ pollPc' = "stop"
  /\ UNCHANGED <<pollIdx, sleepLeft, slept, tickLog, poll_seq, reqVars, worldVars,
                 cfgVars, rangeVars, webVars,
                 mqttVars, running, locked>>
  /\ Quiet

\* a mutant of TickStart: the loop does not test the running flag
TickStartAlways ==
  /\ pollPc = "loop"
  /\ inverters # <<>> /\ Interval > 0
  /\ poll_seq < MaxTicks
  /\ pollPc' = "lock"
  /\ UNCHANGED <<pollIdx, sleepLeft, slept, tickLog, poll_seq, reqVars, worldVars,
                 cfgVars, rangeVars, webVars,
                 mqttVars, running, locked>>
  /\ Quiet

\* lines 499-501: a tick starts: the main thread goes for the lock
TickStart ==
  /\ pollPc = "loop"
  /\ running
  /\ inverters # <<>> /\ Interval > 0
  /\ poll_seq < MaxTicks
  /\ pollPc' = "lock"
  /\ UNCHANGED <<pollIdx, sleepLeft, slept, tickLog, poll_seq, reqVars, worldVars,
                 cfgVars, rangeVars, webVars,
                 mqttVars, running, locked>>
  /\ Quiet

\* line 500 fails: nothing to poll, the loop goes to sleep
NoTick ==
  /\ pollPc = "loop"
  /\ running
  /\ ~(inverters # <<>> /\ Interval > 0)
  /\ pollPc' = "sleep"
  /\ sleepLeft' = Interval
  /\ slept' = 0
  /\ UNCHANGED <<pollIdx, tickLog, poll_seq, reqVars, worldVars, cfgVars, rangeVars,
                 webVars,
                 mqttVars,
                 running, locked>>
  /\ Quiet

\* line 501 and line 461: the lock is taken and _poll_all starts
PollAcquire ==
  /\ pollPc = "lock"
  /\ CanAcquire
  /\ locked' = TRUE
  /\ pollPc' = "cs"
  /\ poll_seq' = poll_seq + 1
  /\ pollIdx' = 1
  /\ tickLog' = <<>>
  /\ UNCHANGED <<sleepLeft, slept, reqVars, worldVars, cfgVars, rangeVars, webVars,
                 mqttVars,
                 running>>
  /\ Quiet

\* lines 462-463: _poll_inverter for the next inverter of the list; an exception that
\* escaped it would end _poll_all and be logged at line 505
PollInverter(env) ==
  /\ pollPc = "cs"
  /\ pollIdx <= Len(inverters)
  /\ LET inv_cfg == inverters[pollIdx]
         key == <<inv_cfg.host, inv_cfg.port>>
         p == PollOne(inv_cfg, poll_seq, World, env)
     IN
     /\ published' = published \o [i \in 1 .. Len(p.pub) |-> Msg("poll", poll_seq, pollIdx)]
     /\ pubNow' = p.pub
     /\ cache' = p.w.cache
     /\ regs' = p.w.regs
     /\ att' = p.w.att
     /\ okc' = p.w.ok
     /\ evicted' = IF p.tag = "evicted" THEN [evicted EXCEPT ![key] = @ + 1] ELSE evicted
     /\ tickLog' = Append(tickLog, [dev |-> pollIdx, tag |-> p.tag, key |-> key,
                                    cached |-> key \in DOMAIN cache])
     /\ pollIdx' = IF p.raise THEN Len(inverters) + 1 ELSE pollIdx + 1
  /\ UNCHANGED <<pollPc, sleepLeft, slept, poll_seq, reqVars, cfgVars, rangeVars, webVars,
                 mqttVars, running, locked,
                 written>>

\* a mutant of AfterTick: the loop is left after the first tick
AfterTickStop == "stop"

\* line 507: after the with block the main thread enters the sleep loop
AfterTick == "sleep"

\* the end of the with block of line 501: the lock is released, the sleep loop starts
PollRelease ==
  /\ pollPc = "cs"
  /\ pollIdx > Len(inverters)
  /\ locked' = FALSE
  /\ pollPc' = AfterTick
  /\ sleepLeft' = Interval
  /\ slept' = 0
  /\ pollIdx' = 0
  /\ tickLog' = <<>>
  /\ UNCHANGED <<poll_seq, reqVars, worldVars, cfgVars, rangeVars, webVars, mqttVars,
                 running>>
  /\ Quiet

\* lines 507-510: one more second of sleep
SleepStep ==
  /\ pollPc = "sleep"
  /\ sleepLeft > 0
  /\ running
  /\ sleepLeft' = sleepLeft - 1
  /\ slept' = slept + 1
  /\ UNCHANGED <<pollPc, pollIdx, tickLog, poll_seq, reqVars, worldVars, cfgVars,
                 rangeVars, webVars,
                 mqttVars, running, locked>>
  /\ Quiet

\* lines 507-509: the sleep loop ends, by exhaustion or by the break
SleepEnd ==
  /\ pollPc = "sleep"
  /\ sleepLeft <= 0 \/ ~running
  /\ pollPc' = "loop"
  /\ UNCHANGED <<pollIdx, sleepLeft, slept, tickLog, poll_seq, reqVars, worldVars,
                 cfgVars, rangeVars, webVars,
                 mqttVars, running, locked>>
  /\ Quiet

\* line 513: loop_stop() joins the network thread, which finishes its callback first
LoopStop ==
  /\ pollPc = "stop"
  /\ reqPc = "idle"
  /\ loopStarted' = FALSE
  /\ pollPc' = "disconnect"
  /\ UNCHANGED <<connected, pollIdx, sleepLeft, slept, tickLog, poll_seq, reqVars, worldVars,
                 cfgVars, rangeVars, webVars, running, locked>>
  /\ Quiet

\* line 514: disconnect()
Disconnect ==
  /\ pollPc = "disconnect"
  /\ connected' = FALSE
  /\ pollPc' = "done"
  /\ UNCHANGED <<loopStarted, pollIdx, sleepLeft, slept, tickLog, poll_seq, reqVars, worldVars,
                 cfgVars, rangeVars, webVars, running, locked>>
  /\ Quiet

\* lines 467-472: SIGTERM or SIGINT clears the running flag
Signal ==
  /\ running
  /\ pollPc # "done"
  /\ running' = FALSE
  /\ UNCHANGED <<pollVars, reqVars, worldVars, cfgVars, rangeVars, webVars, mqttVars,
                 locked>>
  /\ Quiet

ReqNext ==
  \/ \E p \in Requests : Deliver(p)
  \/ ReqAcquire
  \/ \E env \in Envs : ReqHandle(env)
  \/ ReqRelease
  \/ ReqPublish

PollNext ==
  \/ LoopExit
  \/ TickStart
  \/ NoTick
  \/ PollAcquire
  \/ \E env \in Envs : PollInverter(env)
  \/ PollRelease
  \/ SleepStep
  \/ SleepEnd
  \/ LoopStop
  \/ Disconnect

Next == ReqNext \/ PollNext \/ Signal

Spec == Init /\ [][Next]_vars

(***************************************************************************)
(* The dispatcher on its own: _on_message handles up to MaxDispatch        *)
(* messages one after another, drawn from a wider set of payloads, while   *)
(* the main thread stays out of the lane.                                  *)
(***************************************************************************)
\* the payload whose tokens are toks, one space between them
Line(toks) == Join(toks)

\* requests of fewer than three tokens
ShortRequests ==
  { <<>>, <<" ">>, <<"c1">>, <<" ", "c1", "\t">>, <<"c1", " ", "inv1">>,
    <<"c1", "\t", "nope">> }

\* what may follow COOKIE INVERTER_ID in the requests sent to an inverter the bridge
\* cannot serve
Tails ==
  { <<"all">>, <<"info">>, <<"settings">>, <<"bogus">>, <<"3", "0", "1">>,
    <<"6", "0", "1", "5">>, <<"16", "0", "1", "5">>, <<"x", "y", "z">> }

\* requests naming an inverter that is not configured, or one without a host
UnservedRequests ==
  {Line(<<"c2", id>> \o t) : id \in {"nope", "inv3"}, t \in Tails}

\* named queries
NamedRequests ==
  {Line(<<"c3", id, cmd>>) : id \in {"inv1", "inv2"},
                              cmd \in {"info", "all", "ALL", "pv", "battery", "grid",
                                       "energy", "system", "settings", "bogus"}}

\* register reads
ReadRequests ==
  {Line(<<"42", "inv1", f, r, c>>) : f \in {"3", "4"}, r \in {"0", "1", "3"}, c \in {"1", "3"}}

\* register requests whose numbers do not parse, or that stop short of COUNT
BadNumberRequests ==
  { Line(<<"c4", "inv1", "x", "0", "1">>), Line(<<"c4", "inv1", "3", "x", "1">>),
    Line(<<"c4", "inv1", "3", "0", "x">>), Line(<<"c4", "inv1", "3", "0">>),
    Line(<<"c4", "inv2", "16", "0", "y", "5">>) }

\* write-one requests, with and without COUNT and VALUE
WriteOneRequests ==
  {Line(<<"7", "inv1", "6", r, "1">> \o v) :
     r \in {"0", "1", "3"}, v \in {<<>>, <<"999">>, <<"0">>, <<"x">>, <<"65536">>, <<"-1">>}}
    \cup { Line(<<"7", "inv1", "6", "5", "1234">>), Line(<<"7", "inv1", "6", "2", "1", "1234">>),
           Line(<<"7", "inv2", "6", "0", "1", "999">>) }

\* write-many requests
WriteMultiRequests ==
  {Line(<<"c8", "inv1", "16", r, c>> \o v) :
     r \in {"0", "1"}, c \in {"1", "9"},
     v \in {<<>>, <<"999">>, <<"1234", "7">>, <<"7", "x">>, <<"65536">>,
            <<"1", "2", "3", "4", "5">>}}

\* register requests with a function code the bridge does not serve
UnsupportedRequests ==
  {Line(<<"c9", id, f, "0", "1">>) : id \in {"inv1", "inv2"}, f \in {"5", "0", "-1", "17"}}

DispatchRequests ==
  ShortRequests \cup UnservedRequests \cup NamedRequests \cup ReadRequests
    \cup BadNumberRequests \cup WriteOneRequests \cup WriteMultiRequests
    \cup UnsupportedRequests

\* a message arrives at the dispatcher (lines 232-235)
Arrive(p) ==
  /\ reqPc = "idle"
  /\ loopStarted
  /\ reqNo < MaxDispatch
  /\ reqPc' = "lock"
  /\ reqNo' = reqNo + 1
  /\ payload' = p
  /\ UNCHANGED <<result, reqObs, pollVars, worldVars, cfgVars, rangeVars, webVars, mqttVars,
                 running, locked>>
  /\ Quiet

DispatchNext ==
  \/ \E p \in DispatchRequests : Arrive(p)
  \/ ReqAcquire
  \/ \E env \in Envs : ReqHandle(env)
  \/ ReqRelease
  \/ ReqPublish

DispatchSpec == Init /\ [][DispatchNext]_vars

(***************************************************************************)
(* Register reads on their own: the dispatcher handles read requests for   *)
(* counts around zero and around the device's registers, and the device's  *)
(* response may be shorter or longer than what was asked for.              *)
(***************************************************************************)
\* read requests by COUNT, among them none and a negative number of registers
CountRequests ==
  {Line(<<"42", "inv1", f, r, c>>) :
     f \in {"3", "4"}, r \in {"0", "1"}, c \in {"-1", "0", "1", "2", "3"}}

ReadNext ==
  \/ \E p \in ReadRequests \cup CountRequests : Arrive(p)
  \/ ReqAcquire
  \/ \E env \in ReadEnvs : ReqHandle(env)
  \/ ReqRelease
  \/ ReqPublish

ReadSpec == Init /\ [][ReadNext]_vars

(***************************************************************************)
(* The poll loop on its own, over configurations that differ in the poll   *)
(* interval and in the place of the inverter without a host: no message    *)
(* arrives, the main thread ticks and sleeps until a signal stops it.      *)
(***************************************************************************)
\* the poll_interval values of the configurations, below, at and above the minimum
IntervalValues == {0 - 1, 0, 4, 5, 7}

IntervalConfigs ==
  {[inverters |-> <<Inv1, Inv3>>, poll_interval |-> i] : i \in IntervalValues}
    \cup {[inverters |-> <<>>, poll_interval |-> 0]}
    \cup {[inverters |-> <<Inv3, Inv1>>, poll_interval |-> 5],
          [inverters |-> <<Inv3>>, poll_interval |-> 5]}

IntervalInit == \E cfg \in IntervalConfigs : Start(cfg, <<>>, MultiFile(cfg))

IntervalSpec == IntervalInit /\ [][PollNext \/ Signal]_vars

(***************************************************************************)
(* Range discovery and merge.  The engine turns the sensor catalog of a    *)
(* device, one (offset, byteSize) pair per sensor, into the register       *)
(* ranges a poll reads: spans of whole registers, sorted by start, swept   *)
(* left to right into intervals, and cut into batches the protocol can     *)
(* carry.  The result is cached and forgotten after a connection failure.  *)
(***************************************************************************)
\* the widest gap of unused registers that is read over rather than split at
MergeGap == 10

\* the most registers one read transaction carries
MaxBatch == 125

\* a sensor of the catalog: its first register and its size in bytes
Sensor(offset, byteSize) == [offset |-> offset, byteSize |-> byteSize]

\* the registers a sensor occupies, first and last: the byte size rounded up to whole
\* 16-bit registers, one register at least
SpanOf(s) ==
  [start |-> s.offset, end |-> s.offset + Max(1, (s.byteSize + 1) \div 2) - 1]

Spans(cat) == [i \in 1 .. Len(cat) |-> SpanOf(cat[i])]

RECURSIVE InsertSpan(_, _)
InsertSpan(sp, sorted) ==
  IF sorted = <<>> THEN <<sp>>
  ELSE IF sp.start < Head(sorted).start THEN <<sp>> \o sorted
  ELSE <<Head(sorted)>> \o InsertSpan(sp, Tail(sorted))

\* the spans by starting offset, ascending
RECURSIVE SortSpans(_)
SortSpans(spans) ==
  IF spans = <<>> THEN <<>> ELSE InsertSpan(Head(spans), SortSpans(Tail(spans)))

\* the unused registers between the end of the open interval and the start of a span
Gap(end, start) == start - end - 1

MergeableStrict(end, start) == Gap(end, start) < MergeGap

\* the span is taken into the open interval
Mergeable(end, start) == Gap(end, start) <= MergeGap

\* the sweep: the open interval grows over the next span or is closed before it
RECURSIVE Sweep(_, _)
Sweep(open, rest) ==
  IF rest = <<>> THEN <<open>>
  ELSE IF Mergeable(open.end, Head(rest).start)
    THEN Sweep([open EXCEPT !.end = Max(open.end, Head(rest).end)], Tail(rest))
  ELSE <<open>> \o Sweep(Head(rest), Tail(rest))

MergeSpans(sorted) ==
  IF sorted = <<>> THEN <<>> ELSE Sweep(Head(sorted), Tail(sorted))

\* a RegisterRange
RegisterRange(start, count) == [start |-> start, count |-> count]

ChunkWhole(count) == count

\* the registers of the next batch of an interval that has count registers left
Chunk(count) == IF count > MaxBatch THEN MaxBatch ELSE count

\* an interval as batches: full batches first, the remainder last
RECURSIVE SplitRange(_, _)
SplitRange(start, count) ==
  <<RegisterRange(start, Chunk(count))>>
    \o (IF count > Chunk(count)
          THEN SplitRange(start + Chunk(count), count - Chunk(count))
          ELSE <<>>)

RECURSIVE EmitRanges(_)
EmitRanges(intervals) ==
  IF intervals = <<>> THEN <<>>
  ELSE SplitRange(Head(intervals).start, Head(intervals).end - Head(intervals).start + 1)
         \o EmitRanges(Tail(intervals))

\* the ranges of a catalog; none for an empty catalog
DiscoverRanges(cat) == EmitRanges(MergeSpans(SortSpans(Spans(cat))))

\* catalogs of one sensor: sizes of no byte, of odd and even byte counts, and of one
\* batch, of more than one and of a 300-register block
OneSensor ==
  {<<Sensor(o, b)>> : o \in {0, 5}, b \in {0, 1, 2, 3, 4, 250, 252, 500, 502, 600}}

\* the gaps left between two sensors, around MergeGap
GapValues == {0, 9, 10, 11, 12}

\* catalogs of two sensors with g unused registers between them, in either order
TwoSensors ==
  UNION {{<<Sensor(0, b), Sensor((b + 1) \div 2 + g, 2)>>,
          <<Sensor((b + 1) \div 2 + g, 2), Sensor(0, b)>>} :
           b \in {1, 4, 240}, g \in GapValues}

\* catalogs of three sensors: a chain of gaps, and a sensor that lies within another
ThreeSensors ==
  {<<Sensor(0, 2), Sensor(1 + g, 2), Sensor(2 + g + h, 4)>> :
     g \in {10, 11}, h \in {10, 11}}
    \cup {<<Sensor(0, 40), Sensor(5, 2), Sensor(20 + g, 2)>> : g \in {10, 11}}

Catalogs == {<<>>} \cup OneSensor \cup TwoSensors \cup ThreeSensors

\* a bridge without inverters before a device with one of the catalogs
RangeInit ==
  \E cat \in Catalogs :
    Start([inverters |-> <<>>, poll_interval |-> 0], cat,
          MultiFile([inverters |-> <<>>, poll_interval |-> 0]))

\* the ranges are computed when they are first asked for and kept
Discover ==
  /\ ~ranges.known
  /\ ranges' = [known |-> TRUE, list |-> DiscoverRanges(catalog)]
  /\ UNCHANGED <<catalog, reqVars, pollVars, worldVars, cfgVars, mqttVars, running,
                 locked, published, pubNow, webVars>>

\* a connection failure clears the cached ranges
Forget ==
  /\ ranges.known
  /\ ranges' = [known |-> FALSE, list |-> <<>>]
  /\ UNCHANGED <<catalog, reqVars, pollVars, worldVars, cfgVars, mqttVars, running,
                 locked, published, pubNow, webVars>>

RangeNext == Discover \/ Forget

RangeSpec == RangeInit /\ [][RangeNext]_vars

(***************************************************************************)
(* The web administration API (src/web/app.py) and the bridge's loading    *)
(* of the configuration file it writes.  A JSON object is a record that    *)
(* has the keys present in it; a JSON scalar is Num(n), Str(s) or Null.    *)
(* The topics of the bridge's configuration are left out: they are copied  *)
(* through and decide nothing here.                                        *)
(***************************************************************************)
Num(n) == [t |-> "num", n |-> n, s |-> ""]
Str(x) == [t |-> "str", n |-> 0, s |-> x]
Null == [t |-> "null", n |-> 0, s |-> ""]

\* dict.get(k, default)
Get(obj, k, default) == IF k \in DOMAIN obj THEN obj[k] ELSE default

\* the file is missing or is no JSON
NoFile == [missing |-> TRUE]

\* the poll interval of a configuration that names none
DefaultInterval == 30

\* a mutant of LoadGoodweConfig: a top-level host is not migrated
LoadGoodweConfigNoMigrate(file) ==
  IF "missing" \in DOMAIN file
  THEN [inverters |-> <<>>, poll_interval |-> DefaultInterval]
  ELSE [inverters |-> Get(file, "inverters", <<>>),
        poll_interval |-> Get(file, "poll_interval", DefaultInterval)]

\* load_goodwe_config of the bridge: the inverters and the poll interval of the file
LoadGoodweConfig(file) ==
  IF "missing" \in DOMAIN file
  THEN [inverters |-> <<>>, poll_interval |-> DefaultInterval]
  ELSE LET migrated ==
             IF "host" \in DOMAIN file /\ "inverters" \notin DOMAIN file
             THEN IF file.host # ""
                  THEN <<[id |-> "0", host |-> file.host,
                          port |-> Get(file, "port", DefaultPort)]>>
                  ELSE <<>>
             ELSE Get(file, "inverters", <<>>)
       IN [inverters |-> migrated,
           poll_interval |-> Get(file, "poll_interval", DefaultInterval)]

\* str.strip() on the host texts of the model's vocabulary
Strip(x) ==
  CASE x = " h1 " -> "h1"
    [] x = " " -> ""
    [] OTHER -> x

\* int(v) of a JSON scalar: the number, or what converting it raises
ToInt(v) ==
  IF v.t = "num" THEN [exc |-> FALSE, n |-> v.n]
  ELSE IF v.t = "str" /\ IsInt(v.s) THEN [exc |-> FALSE, n |-> IntOf(v.s)]
  ELSE [exc |-> TRUE, n |-> 0]

Reply(code, error, details) == [code |-> code, error |-> error, details |-> details]

\* what a handler did: the file it leaves, its reply, whether it wrote the file and
\* whether it ran systemctl restart
Outcome(file, reply, wrote, restart) ==
  [file |-> file, reply |-> reply, wrote |-> wrote, restart |-> restart]

\* the outcomes of the calls a handler makes: env.write, the file can be written;
\* env.restart, systemctl restart succeeds
WebEnvs == [write : BOOLEAN, restart : BOOLEAN]

\* api_save_goodwe_config
SaveGoodweConfig(data, file, env) ==
  IF DOMAIN data = {} THEN Outcome(file, Reply(400, "Invalid JSON", <<>>), FALSE, FALSE)
  ELSE
  LET h == Get(data, "host", Null)
      host == IF h.t = "str" THEN Strip(h.s) ELSE ""
      port == ToInt(Get(data, "port", Num(DefaultPort)))
      poll == ToInt(Get(data, "poll_interval", Num(DefaultInterval)))
  IN
  IF port.exc \/ poll.exc
  THEN Outcome(file, Reply(500, "Internal Server Error", <<>>), FALSE, FALSE)
  ELSE
  LET config == [host |-> host, port |-> port.n,
                 poll_interval |-> IF poll.n > 0 THEN Max(poll.n, MinInterval) ELSE 0]
  IN
  IF ~env.write THEN Outcome(file, Reply(500, "Permission denied", <<>>), FALSE, FALSE)
  ELSE Outcome(config, Reply(200, "", <<>>), TRUE, TRUE)

\* str.isdigit() and int() on the number texts of the model's vocabulary
DigitValue ==
  [x \in {"0", "1", "1883", "9600", "65535", "70000"} |->
     CASE x = "0" -> 0 [] x = "1" -> 1 [] x = "1883" -> 1883 [] x = "9600" -> 9600
       [] x = "65535" -> 65535 [] OTHER -> 70000]

IsDigit(x) == x \in DOMAIN DigitValue

\* the key is not in the object
Absent == "<absent>"

\* a serial gateway of a posted configuration
Gateway(id, device, baudrate, parity) ==
  [id |-> id, device |-> device, baudrate |-> baudrate, parity |-> parity]

RECURSIVE GatewayErrors(_, _)
\* lines 134-144: the errors of the gateways from number i on
GatewayErrors(gws, i) ==
  IF i > Len(gws) THEN <<>>
  ELSE LET gw == gws[i]
           n == "Serial gateway #" \o Dec(i) \o ": "
           baud == IF gw.baudrate = Absent THEN "9600" ELSE gw.baudrate
           parity == IF gw.parity = Absent THEN "none" ELSE gw.parity
       IN (IF gw.id \in {"", Absent} THEN <<n \o "id is required">> ELSE <<>>)
            \o (IF gw.device \in {"", Absent} THEN <<n \o "device is required">> ELSE <<>>)
            \o (IF baud # "" /\ ~IsDigit(baud)
                  THEN <<n \o "baudrate must be numeric">> ELSE <<>>)
            \o (IF parity \notin {"none", "even", "odd"}
                  THEN <<n \o "parity must be none/even/odd">> ELSE <<>>)
            \o GatewayErrors(gws, i + 1)

\* the value of a key of the mqtt section, "" when the key or the section is absent
MqttOption(config, k) ==
  IF "mqtt" \in DOMAIN config /\ k \in DOMAIN config.mqtt THEN config.mqtt[k] ELSE ""

\* "://" in host, on the host texts of the model's vocabulary
HasProtocol(x) == x \in {"mqtts://broker"}

\* validate_config: the list of error strings
ValidateConfig(config) ==
  LET host == MqttOption(config, "host")
      port == MqttOption(config, "port")
      qos == MqttOption(config, "qos")
      tls == MqttOption(config, "tls_version")
  IN (IF host = "" THEN <<"MQTT host is required">> ELSE <<>>)
       \o (IF port = "" THEN <<"MQTT port is required">> ELSE <<>>)
       \o (IF MqttOption(config, "request_topic") = ""
             THEN <<"MQTT request_topic is required">> ELSE <<>>)
       \o (IF MqttOption(config, "response_topic") = ""
             THEN <<"MQTT response_topic is required">> ELSE <<>>)
       \o (IF host # "" /\ HasProtocol(host)
             THEN <<"MQTT host must be a bare hostname or IP (no protocol prefix like mqtts://)">>
             ELSE <<>>)
       \o (IF port # "" /\ (~IsDigit(port) \/ DigitValue[port] < 1 \/ DigitValue[port] > 65535)
             THEN <<"MQTT port must be 1-65535">> ELSE <<>>)
       \o (IF qos # "" /\ qos \notin {"0", "1", "2"}
             THEN <<"MQTT QoS must be 0, 1, or 2">> ELSE <<>>)
       \o (IF tls # "" /\ tls \notin {"tlsv1", "tlsv1.1", "tlsv1.2"}
             THEN <<"TLS version must be tlsv1, tlsv1.1, or tlsv1.2">> ELSE <<>>)
       \o GatewayErrors(Get(config, "serial_gateways", <<>>), 1)

\* the keys of a section in the order write_config meets them
MqttKeys == <<"host", "port", "request_topic", "response_topic", "qos", "tls_version">>
GatewayKeys == <<"id", "device", "baudrate", "parity">>

RECURSIVE Options(_, _, _)
\* lines 78-80: one option line per key whose value is not empty
Options(section, keys, i) ==
  IF i > Len(keys) THEN <<>>
  ELSE (IF keys[i] \in DOMAIN section /\ section[keys[i]] \notin {"", Absent}
          THEN <<"\toption " \o keys[i] \o " '" \o section[keys[i]] \o "'">>
          ELSE <<>>)
         \o Options(section, keys, i + 1)

RECURSIVE GatewayLines(_, _)
GatewayLines(gws, i) ==
  IF i > Len(gws) THEN <<>>
  ELSE <<"config serial_gateway">> \o Options(gws[i], GatewayKeys, 1) \o <<"">>
         \o GatewayLines(gws, i + 1)

\* write_config: the lines of the file written for a configuration
ConfigLines(config) ==
  (IF "mqtt" \in DOMAIN config
     THEN <<"config mqtt">> \o Options(config.mqtt, MqttKeys, 1) \o <<"">>
     ELSE <<>>)
    \o GatewayLines(Get(config, "serial_gateways", <<>>), 1)

\* a mutant of SaveConfig: the file is written before the configuration is validated
SaveConfigWriteFirst(data, file, env) ==
  IF DOMAIN data = {} THEN Outcome(file, Reply(400, "Invalid JSON", <<>>), FALSE, FALSE)
  ELSE IF ~env.write
  THEN Outcome(file, Reply(500, "Permission denied writing config file", <<>>),
               FALSE, FALSE)
  ELSE IF ValidateConfig(data) # <<>>
  THEN Outcome(ConfigLines(data), Reply(400, "Validation failed", ValidateConfig(data)),
               TRUE, FALSE)
  ELSE Outcome(ConfigLines(data), Reply(200, "", <<>>), TRUE, TRUE)

\* api_save_config
SaveConfig(data, file, env) ==
  IF DOMAIN data = {} THEN Outcome(file, Reply(400, "Invalid JSON", <<>>), FALSE, FALSE)
  ELSE IF ValidateConfig(data) # <<>>
  THEN Outcome(file, Reply(400, "Validation failed", ValidateConfig(data)), FALSE, FALSE)
  ELSE IF ~env.write
  THEN Outcome(file, Reply(500, "Permission denied writing config file", <<>>),
               FALSE, FALSE)
  ELSE Outcome(ConfigLines(data),
               Reply(200, IF env.restart THEN "" ELSE "Config saved but restart failed",
                     <<>>),
               TRUE, TRUE)

\* the bodies posted to /api/goodwe/config
GoodweBodies ==
  {<<>>}
    \cup {[host |-> Str(h), port |-> Num(p), poll_interval |-> Num(i)] :
            h \in {"", " h1 ", "h2"}, p \in {DefaultPort, 502}, i \in {0 - 1, 3, 30}}
    \cup {[host |-> Str("h1")], [host |-> Null, port |-> Num(502)],
          [host |-> Str("h2"), port |-> Str("15")],
          [host |-> Str("h2"), port |-> Str("x")],
          [host |-> Str("h1"), poll_interval |-> Null]}

\* the mqtt section the posted configurations vary
GoodMqtt ==
  [host |-> "broker", port |-> "1883", request_topic |-> "req", response_topic |-> "resp",
   qos |-> "1", tls_version |-> ""]

MqttSections ==
  {GoodMqtt}
    \cup {[GoodMqtt EXCEPT !.host = h] : h \in {"", "mqtts://broker"}}
    \cup {[GoodMqtt EXCEPT !.port = x] : x \in {"", "0", "65535", "70000", "abc"}}
    \cup {[GoodMqtt EXCEPT !.qos = x] : x \in {"", "3"}}
    \cup {[GoodMqtt EXCEPT !.tls_version = x] : x \in {"tlsv1.2", "ssl3"}}
    \cup {[GoodMqtt EXCEPT !.request_topic = ""], [GoodMqtt EXCEPT !.response_topic = ""],
          [GoodMqtt EXCEPT !.host = "", !.port = "abc", !.qos = "3"]}

GatewayLists ==
  { <<>>,
    <<Gateway("gw1", "/dev/ttyUSB0", "9600", "none")>>,
    <<Gateway("gw1", "/dev/ttyUSB0", Absent, Absent)>>,
    <<Gateway("gw1", "/dev/ttyUSB0", "fast", "mark")>>,
    <<Gateway("gw1", "/dev/ttyUSB0", "", "")>>,
    <<Gateway("gw1", "/dev/ttyUSB0", "9600", "even"), Gateway("", Absent, "9600", "odd")>> }

\* the bodies posted to /api/config
ConfigBodies ==
  {<<>>, [serial_gateways |-> <<>>]}
    \cup {[mqtt |-> m, serial_gateways |-> <<>>] : m \in MqttSections}
    \cup {[mqtt |-> GoodMqtt, serial_gateways |-> g] : g \in GatewayLists}

\* the contents the bridge's configuration file may have when the bridge starts
GoodweFiles ==
  {NoFile, <<>>, [host |-> "h1"], [inverters |-> <<Inv1, Inv3>>, poll_interval |-> 6],
   [host |-> "h9", port |-> 502, inverters |-> <<Inv2>>], [inverters |-> <<>>]}
    \cup {[host |-> h, port |-> p, poll_interval |-> 30] :
            h \in {"", "h1"}, p \in {DefaultPort, 502}}

\* the bridge starts over one of the files
WebInit == \E file \in GoodweFiles : Start(LoadGoodweConfig(file), <<>>, file)

\* what the last POST was and did
Posted(api, data, o) ==
  [api |-> api, posted |-> data, reply |-> o.reply, wrote |-> o.wrote,
   restart |-> o.restart, seq |-> web.seq + 1]

\* POST /api/goodwe/config: the file is saved and the bridge's service restarted, which
\* loads the file when the restart succeeds
PostGoodweConfig(data, env) ==
  LET o == SaveGoodweConfig(data, goodweFile, env) IN
  /\ web.seq < MaxPosts
  /\ goodweFile' = o.file
  /\ web' = Posted("goodwe", data, o)
  /\ IF o.restart /\ env.restart
     THEN /\ inverters' = LoadGoodweConfig(o.file).inverters
          /\ poll_interval' = LoadGoodweConfig(o.file).poll_interval
          /\ bootFile' = o.file
     ELSE UNCHANGED <<inverters, poll_interval, bootFile>>
  /\ UNCHANGED <<confFile, rangeVars, reqVars, pollVars, worldVars, mqttVars, running,
                 locked, published, pubNow>>

\* POST /api/config
PostConfig(data, env) ==
  LET o == SaveConfig(data, confFile, env) IN
  /\ web.seq < MaxPosts
  /\ confFile' = o.file
  /\ web' = Posted("config", data, o)
  /\ UNCHANGED <<goodweFile, bootFile, cfgVars, rangeVars, reqVars, pollVars, worldVars,
                 mqttVars, running, locked, published, pubNow>>

\* the bridge's service is started by something else than the web API
BridgeStart ==
  /\ bootFile # goodweFile
  /\ inverters' = LoadGoodweConfig(goodweFile).inverters
  /\ poll_interval' = LoadGoodweConfig(goodweFile).poll_interval
  /\ bootFile' = goodweFile
  /\ UNCHANGED <<goodweFile, confFile, web, rangeVars, reqVars, pollVars, worldVars,
                 mqttVars, running, locked, published, pubNow>>

WebNext ==
  \/ \E data \in GoodweBodies, env \in WebEnvs : PostGoodweConfig(data, env)
  \/ \E data \in ConfigBodies, env \in WebEnvs : PostConfig(data, env)
  \/ BridgeStart

WebSpec == WebInit /\ [][WebNext]_vars

(***************************************************************************)
(* Fairness.  Both threads keep running: a thread that can take its next   *)
(* step takes it, and a device call returns or raises (the library's       *)
(* timeouts).  A thread blocked on the lock gets it once the lock stays    *)
(* free: the main thread sleeps at least five seconds between releasing    *)
(* the lock and asking for it again, and the network thread publishes and  *)
(* waits for the next message.  Messages and signals may never come.       *)
(***************************************************************************)
\* ReqHandle is enabled exactly when reqPc = "cs" and every step of it leaves "cs";
\* PollInverter is enabled exactly when the tick has an inverter left and every step of
\* it moves to the next one.  Weak fairness of the two is written as the state they
\* cannot stay in for ever.
HandlersReturn ==
  /\ []<>(reqPc # "cs")
  /\ []<>(pollPc # "cs" \/ pollIdx > Len(inverters))

Fairness ==
  /\ WF_vars(ReqAcquire)
  /\ WF_vars(ReqRelease)
  /\ WF_vars(ReqPublish)
  /\ WF_vars(LoopExit \/ TickStart \/ NoTick \/ PollAcquire \/ PollRelease)
  /\ WF_vars(SleepStep \/ SleepEnd \/ LoopStop \/ Disconnect)
  /\ HandlersReturn

FairSpec == Init /\ [][Next]_vars /\ Fairness

(***************************************************************************)
(* Properties.                                                             *)
(***************************************************************************)
\* the responses published for inbound message number k
Responses(k) == Cardinality({i \in 1 .. Len(published) : published[i] = Msg("req", k, 0)})

\* the network thread is inside _on_message with the lock held
ReqInLane == reqPc \in {"cs", "exit"}

\* the main thread is inside the with block of run()
PollInLane == pollPc = "cs"

\* C1: every inbound message delivered to _on_message gets exactly one response on the
\* response topic: never a second one, none before it is delivered, one once the
\* handler has returned, and the handler of a delivered message does get to publish.
C1_ExactlyOneResponse ==
  /\ [](\A k \in 1 .. MaxReq :
          /\ Responses(k) <= 1
          /\ (k > reqNo \/ (k = reqNo /\ reqPc # "idle")) => Responses(k) = 0
          /\ (k < reqNo \/ (k = reqNo /\ reqPc = "idle")) => Responses(k) = 1)
  /\ \A k \in 1 .. MaxReq : (reqNo = k) ~> (Responses(k) = 1)

\* C1 witness: the ERR line of a request whose device read failed has just been published
C1_Witness ==
  /\ reqNo = 1 /\ reqPc = "idle" /\ Responses(1) = 1
  /\ pubNow = <<ErrLine("c5", IoError)>>

\* C2: the response published for a request whose first token is C has C as its first
\* token, whether the handler returned OK, returned ERR or raised.
C2_CookieEchoed ==
  [][(reqPc = "publish" /\ reqPc' = "idle" /\ Tokens(payload) # <<>>)
       => /\ Len(pubNow') = 1
          /\ FirstToken(pubNow'[1]) = Tokens(payload)[1]]_vars

\* C2 witness: the response to a request during which int() raised has just been published
C2_Witness ==
  /\ reqPc = "idle" /\ Responses(1) = 1
  /\ pubNow = <<ErrLine("c7", ValueErrorMsg("x"))>>

\* C3: the request handler and a poll tick are never both inside the lane, the lock is
\* held whenever one of them is, and the connection cache changes only inside it.
C3_MutualExclusion ==
  /\ [](~(ReqInLane /\ PollInLane) /\ ((ReqInLane \/ PollInLane) => locked))
  /\ [][cache' # cache => ((ReqInLane /\ ~PollInLane) \/ (PollInLane /\ ~ReqInLane))]_vars

\* C3 witness: a request waits for the lock while a poll tick that has connected holds it
C3_Witness == reqPc = "lock" /\ PollInLane /\ locked /\ cache # <<>>

\* C4: the lock is held only by a handler or a tick that is inside the lane, so it is
\* free once the operation has returned or raised; and a request or a tick waiting for
\* the lock gets it.
C4_LaneReleased ==
  /\ [](locked => (ReqInLane \/ PollInLane))
  /\ (reqPc = "lock") ~> (reqPc = "cs")
  /\ (pollPc = "lock") ~> (pollPc = "cs")

\* C4 witness: the lock is free after a request that raised, with a tick waiting for it
C4_Witness == reqPc = "publish" /\ reqObs.exc /\ ~locked /\ pollPc = "lock"

\* while a key stays cached its handle is kept and no handshake is made for it; a key
\* enters the cache by exactly one handshake; the cached handle is the latest connected
CachedHandleKept ==
  /\ [](\A k \in DOMAIN cache : cache[k] = [key |-> k, gen |-> okc[k]])
  /\ [][\A k \in Keys :
          /\ (k \in DOMAIN cache /\ k \in DOMAIN cache')
               => (cache'[k] = cache[k] /\ att'[k] = att[k])
          /\ (k \notin DOMAIN cache /\ k \in DOMAIN cache') => att'[k] = att[k] + 1]_vars

\* C5 as stated: the connect handshakes of a key number at most one plus its evictions
C5_Original ==
  /\ [](\A k \in Keys : att[k] <= 1 + evicted[k])
  /\ CachedHandleKept

\* C5 (amended): the connect handshakes of a key that succeeded number at most one
\* plus its evictions, and a cached key is served without a handshake.
C5_ConnectCached ==
  /\ [](\A k \in Keys : okc[k] <= 1 + evicted[k])
  /\ CachedHandleKept

\* C5 witness: a request was served from the connection an earlier tick had cached
C5_Witness ==
  /\ reqPc = "exit" /\ reqObs.cached /\ reqObs.tag = "ok"
  /\ poll_seq >= 1 /\ okc[reqObs.key] = 1 /\ att[reqObs.key] = 1

\* the ways a device query fails in transport
Failures == {"connfail", "iofail"}

\* C6: a request whose device I/O fails on a cached connection is answered
\* <cookie> ERR <message> and leaves the connection cache without the key of its device.
C6_RequestFailureEvicts ==
  (reqPc = "exit" /\ reqObs.tag = "iofail" /\ reqObs.cached)
    => /\ result = ErrLine(Tokens(payload)[1], IoError)
       /\ reqObs.key \notin DOMAIN cache

\* the tick has polled its last inverter and not yet released the lock
TickOver == pollPc = "cs" /\ pollIdx > Len(inverters)

\* C7: when a tick is over, the cache holds no entry for an inverter whose poll failed
\* in it.
C7_PollFailureEvicts ==
  TickOver => \A j \in 1 .. Len(tickLog) :
                tickLog[j].tag \in Failures => tickLog[j].key \notin DOMAIN cache

\* C8: nothing is published in a tick for an inverter whose poll failed in it.
C8_PollFailureNotPublished ==
  pollPc = "cs" => \A j \in 1 .. Len(tickLog) :
                     tickLog[j].tag \in Failures
                       => \A i \in 1 .. Len(published) :
                            published[i] # Msg("poll", poll_seq, tickLog[j].dev)

\* C9: a failed poll of one inverter leaves the tick running at the next inverter and
\* the cache entries of the other keys as they were; the inverters of a tick are polled
\* in configuration order, and the tick ends only when all of them have been.
C9_FailureIsolation ==
  /\ [](pollPc = "cs" => /\ Len(tickLog) = pollIdx - 1
                         /\ \A j \in 1 .. Len(tickLog) : tickLog[j].dev = j)
  /\ [][(pollPc = "cs" /\ pollPc' # "cs") => Len(tickLog) = Len(inverters)]_vars
  /\ [][(pollPc = "cs" /\ Len(tickLog') = Len(tickLog) + 1
            /\ tickLog'[pollIdx].tag \in Failures)
          => /\ pollPc' = "cs"
             /\ pollIdx' = pollIdx + 1
             /\ \A k \in Keys \ {tickLog'[pollIdx].key} :
                  /\ k \in DOMAIN cache <=> k \in DOMAIN cache'
                  /\ k \in DOMAIN cache => cache'[k] = cache[k]]_vars

\* C9 witness: a tick is over in which the first inverter failed on its cached
\* connection and the second, cached too, was polled
C9_Witness ==
  /\ TickOver /\ Len(tickLog) = 3
  /\ tickLog[1].tag = "iofail" /\ tickLog[1].cached
  /\ tickLog[2].tag = "ok" /\ tickLog[2].cached

\* C10: after each tick, failed or not, the next one starts unless the bridge is told
\* to stop (the model starts no tick beyond MaxTicks).
C10_SchedulerContinues ==
  \A n \in 1 .. (MaxTicks - 1) :
    (poll_seq = n /\ TickOver) ~> (poll_seq = n + 1 \/ ~running)

\* C10 witness: the second tick runs after a first in which no connect succeeded
C10_Witness ==
  /\ poll_seq = 2 /\ pollPc = "cs" /\ running /\ reqNo = 0
  /\ \A k \in Keys : okc[k] = 0

(***************************************************************************)
(* The dispatcher's answers (DispatchSpec).  Each property looks at the    *)
(* step in which _on_message handles the payload: reqPc goes from "cs" to  *)
(* "exit", result' is the line that will be published.                     *)
(***************************************************************************)
\* the tokens of the payload being handled
Parts == Tokens(payload)

\* the step of lines 238-244
Handling == reqPc = "cs" /\ reqPc' = "exit"

\* the cookie a response to the payload carries
Cookie == IF Parts = <<>> THEN "0" ELSE Parts[1]

\* the id names a configured inverter
Configured(id) == \E i \in 1 .. Len(inverters) : inverters[i].id = id

\* the host of the configured inverter with the id
HostOf(id) == inverters[CHOOSE i \in 1 .. Len(inverters) : inverters[i].id = id].host

\* the payload addresses a configured inverter that has a host
Served == Len(Parts) >= 3 /\ Configured(Parts[2]) /\ HostOf(Parts[2]) # ""

\* the payload is a register request: its third token is no command word and the
\* tokens reach COUNT
RegisterRequest ==
  /\ Served
  /\ Lower(Parts[3]) \notin (NamedGroups \cup {"info", "settings"})
  /\ Len(Parts) >= 5

\* FUNC, REG and COUNT are integers
NumbersParse == IsInt(Parts[3]) /\ IsInt(Parts[4]) /\ IsInt(Parts[5])

\* the cache key of the inverter the payload addresses
ReqKey == <<HostOf(Parts[2]), DefaultPort>>

\* the step made a connect handshake that failed
ConnectFailed == \E k \in Keys : att'[k] > att[k] /\ okc'[k] = okc[k]

\* the device of the request was reached and answered its I/O in the step
DeviceAnswered == ~ConnectFailed /\ reqObs'.tag \notin Failures

RECURSIVE Spaced(_)
\* the tokens, a space before each
Spaced(toks) == IF toks = <<>> THEN <<>> ELSE <<" ", Head(toks)>> \o Spaced(Tail(toks))

\* the line made of the tokens
Text(toks) == Tail(Spaced(toks))

\* C11: whatever the payload and whatever the device does, the handling step ends with
\* a response line <cookie> OK ... or <cookie> ERR ...; a failed connect, a failed device
\* call, a rejected or unparsable value and an invalid request all end in ERR.
C11_NoEscape ==
  [][Handling =>
       LET toks == Tokens(result') IN
       /\ Len(toks) >= 2
       /\ toks[1] = Cookie
       /\ toks[2] \in {"OK", "ERR"}
       /\ (ConnectFailed \/ reqObs'.exc \/ reqObs'.tag # "ok") => toks[2] = "ERR"
       /\ (toks[2] = "OK") => (reqObs'.tag = "ok" /\ ~reqObs'.exc)]_vars

\* C11 witness: the connect of a register request failed: the exception left
\* _handle_request and became the ERR line
C11_Witness ==
  /\ reqPc = "exit" /\ reqObs.exc /\ reqObs.tag = "connfail"
  /\ payload = Line(<<"42", "inv1", "3", "0", "3">>)
  /\ result = Text(<<"42", "ERR", "connect", "failed">>)

\* C12 as stated: a request of three tokens or more whose id is not configured is
\* answered <cookie> ERR unknown device id '<id>'
C12_Original ==
  [][(Handling /\ Len(Parts) >= 3 /\ ~Configured(Parts[2]))
       => result' = Text(<<Parts[1], "ERR", "unknown", "device", "id",
                           "'" \o Parts[2] \o "'">>)]_vars

\* C12 (amended): a request of three tokens or more whose id is not configured is
\* answered <cookie> ERR unknown inverter id '<id>', whatever follows the id, without an
\* exception and without touching a device.
C12_UnknownInverter ==
  [][(Handling /\ Len(Parts) >= 3 /\ ~Configured(Parts[2]))
       => /\ result' = Text(<<Parts[1], "ERR", "unknown", "inverter", "id",
                              "'" \o Parts[2] \o "'">>)
          /\ ~reqObs'.exc
          /\ UNCHANGED <<cache, regs, att, okc>>]_vars

\* C12 witness: a write request for an unknown id got its answer while inverters are
\* configured
C12_Witness ==
  /\ reqPc = "exit" /\ inverters # <<>>
  /\ payload = Line(<<"c2", "nope", "6", "0", "1", "5">>)
  /\ result = Text(<<"c2", "ERR", "unknown", "inverter", "id", "'nope'">>)

\* a token of the register request that has to be an integer is not one
ConversionFails ==
  \/ ~NumbersParse
  \/ /\ Parts[3] = "6" /\ Len(Parts) >= 6 /\ ~IsInt(Parts[6])
  \/ /\ Parts[3] = "16" /\ \E k \in 6 .. Len(Parts) : ~IsInt(Parts[k])

\* C13: a register request with a token that fails to convert to an integer (FUNC, REG,
\* COUNT, the value of a write-one, a value of a write-many) is answered
\* <cookie> ERR invalid numeric values (the inverter being reachable).
C13_InvalidNumeric ==
  [][(Handling /\ RegisterRequest /\ ConversionFails /\ ~ConnectFailed)
       => result' = Text(<<Parts[1], "ERR", "invalid", "numeric", "values">>)]_vars

\* C14: a register request whose function code is an integer other than 3, 4, 6 and 16
\* is answered <cookie> ERR unsupported function ..., the inverter reachable or not.
C14_Unsupported ==
  [][(Handling /\ RegisterRequest /\ NumbersParse
        /\ IntOf(Parts[3]) \notin {3, 4, 6, 16})
       => LET toks == Tokens(result') IN
          /\ Len(toks) >= 4
          /\ SubSeq(toks, 1, 4) = <<Parts[1], "ERR", "unsupported", "function">>]_vars

\* REG, COUNT and the value tokens of a register request
Reg == IntOf(Parts[4])
Count == IntOf(Parts[5])
ValueTokens == SubSeq(Parts, 6, Len(Parts))

\* the token is an integer a 16-bit register holds
IsWord16(tok) == IsInt(tok) /\ IntOf(tok) >= 0 /\ IntOf(tok) < Word16

\* the device has the n registers from r on
HasRegisters(r, n) == r >= 0 /\ n >= 1 /\ r + n <= NumRegs

\* the payload is a write-one request with its numbers parsed
WriteOne == RegisterRequest /\ NumbersParse /\ IntOf(Parts[3]) = 6

\* C15 as stated: the five-token request C D 6 REG VALUE to a configured inverter that
\* is reached and answers yields C OK and leaves VALUE in register REG
C15_Original ==
  [][(Handling /\ WriteOne /\ Len(Parts) = 5 /\ DeviceAnswered)
       => /\ result' = Text(<<Parts[1], "OK">>)
          /\ HasRegisters(Reg, 1) => regs'[ReqKey][Reg] = IntOf(Parts[5])]_vars

\* C15 (amended): the write-one request is C D 6 REG COUNT VALUE: sent to a configured
\* inverter that is reached and answers, with REG a register of the device and VALUE in
\* 0 .. 65535, it leaves VALUE in register REG, changes no other register and yields
\* exactly C OK; the five-token form, which has no VALUE, yields
\* C ERR missing write value and writes nothing.
C15_WriteOne ==
  [][(Handling /\ WriteOne /\ DeviceAnswered)
       => IF Len(Parts) = 5
          THEN /\ result' = Text(<<Parts[1], "ERR", "missing", "write", "value">>)
               /\ regs' = regs
          ELSE (IsWord16(Parts[6]) /\ HasRegisters(Reg, 1))
                 => /\ result' = Text(<<Parts[1], "OK">>)
                    /\ regs' = [regs EXCEPT ![ReqKey][Reg] = IntOf(Parts[6])]]_vars

\* C15 witness: 7 inv1 6 2 1 1234 was answered 7 OK and register 2 holds 1234
C15_Witness ==
  /\ reqPc = "exit"
  /\ payload = Line(<<"7", "inv1", "6", "2", "1", "1234">>)
  /\ result = Text(<<"7", "OK">>)
  /\ regs[<<"h1", DefaultPort>>][2] = 1234

\* the payload is a read request with its numbers parsed
ReadRequest == RegisterRequest /\ NumbersParse /\ IntOf(Parts[3]) \in {3, 4}

\* C16: a function-3 or function-4 request for COUNT registers from REG, all of them
\* registers of the device, to an inverter that is reached and answers, yields
\* C OK v1 ... vCOUNT, the decimal register contents in ascending register order, and
\* changes no register.
C16_ReadRegisters ==
  [][(Handling /\ ReadRequest /\ HasRegisters(Reg, Count) /\ DeviceAnswered)
       => /\ result' = Text(<<Parts[1], "OK">>
                              \o [k \in 1 .. Count |-> Dec(regs[ReqKey][Reg + k - 1])])
          /\ regs' = regs]_vars

\* C16 witness: 42 inv1 3 0 3 over the registers 100, 200, 300 was answered
\* 42 OK 100 200 300
C16_Witness ==
  /\ reqPc = "exit"
  /\ payload = Line(<<"42", "inv1", "3", "0", "3">>)
  /\ regs[<<"h1", DefaultPort>>] = [r \in 0 .. (NumRegs - 1) |-> 100 * (r + 1)]
  /\ result = Text(<<"42", "OK">> \o [k \in 1 .. NumRegs |-> Dec(100 * k)])

\* C17: a register keeps the value a successful write-one put there until another write
\* to it, and a read of that register alone returns that value.
C17_RoundTrip ==
  /\ [](\A k \in Keys : \A r \in 0 .. (NumRegs - 1) :
          written[k][r] # NotWritten => regs[k][r] = written[k][r])
  /\ [][(Handling /\ ReadRequest /\ Count = 1 /\ HasRegisters(Reg, 1) /\ DeviceAnswered
           /\ written[ReqKey][Reg] # NotWritten)
          => result' = Text(<<Parts[1], "OK", Dec(written[ReqKey][Reg])>>)]_vars

\* C17 witness: the second request read register 1 back as the 999 the first had written
C17_Witness ==
  /\ reqNo = 2 /\ reqPc = "exit"
  /\ payload = Line(<<"42", "inv1", "4", "1", "1">>)
  /\ written[<<"h1", DefaultPort>>][1] = 999
  /\ result = Text(<<"42", "OK", "999">>)

\* the payload is a write-many request with its numbers parsed
WriteMany == RegisterRequest /\ NumbersParse /\ IntOf(Parts[3]) = 16

\* C18: a function-16 request without a value token is answered ERR and writes nothing;
\* with value tokens v1 .. vn, each an integer of 16 bits, the byte string written has
\* 2 n bytes, the k-th pair being vk big-endian, and (the n registers from REG being
\* registers of a device that is reached and answers) register REG + k - 1 ends as vk,
\* every other register as it was, the answer being C OK.
C18_WriteMany ==
  [][(Handling /\ WriteMany)
       => IF Len(Parts) = 5
          THEN Tokens(result')[2] = "ERR" /\ regs' = regs
          ELSE (\A k \in 6 .. Len(Parts) : IsWord16(Parts[k]))
                 => LET n == Len(Parts) - 5
                        data == ValueBytes(ValueTokens).data
                    IN
                    /\ Len(data) = 2 * n
                    /\ \A k \in 1 .. n :
                         data[2 * k - 1] * 256 + data[2 * k] = IntOf(Parts[5 + k])
                    /\ (HasRegisters(Reg, n) /\ DeviceAnswered)
                         => /\ result' = Text(<<Parts[1], "OK">>)
                            /\ regs' = [regs EXCEPT ![ReqKey] =
                                 [r \in 0 .. (NumRegs - 1) |->
                                    IF r >= Reg /\ r < Reg + n
                                    THEN IntOf(Parts[6 + r - Reg]) ELSE @[r]]]]_vars

\* C18 witness: c8 inv1 16 1 9 1234 7 was answered c8 OK and registers 1 and 2 hold
\* 1234 and 7
C18_Witness ==
  /\ reqPc = "exit"
  /\ payload = Line(<<"c8", "inv1", "16", "1", "9", "1234", "7">>)
  /\ result = Text(<<"c8", "OK">>)
  /\ regs[<<"h1", DefaultPort>>][1] = 1234 /\ regs[<<"h1", DefaultPort>>][2] = 7

\* C19: a request of fewer than three tokens is answered <cookie> ERR invalid format
\* ..., the cookie its first token ("0" when it has none), without a connect and
\* without a change to the cache or to a register.
C19_TooFewTokens ==
  [][(Handling /\ Len(Parts) < 3)
       => /\ result' = Text(<<Cookie, "ERR", "invalid", "format:", "need", "COOKIE",
                              "INVERTER_ID", "FUNC", "...">>)
          /\ UNCHANGED <<cache, regs, att, okc>>]_vars

\* C19 witness: the two-token request c1 <tab> nope was answered under the cookie c1
C19_Witness ==
  /\ reqPc = "exit" /\ payload = <<"c1", "\t", "nope">>
  /\ SubSeq(Tokens(result), 1, 4) = <<"c1", "ERR", "invalid", "format:">>

\* C20: a request to a configured inverter without a host is answered
\* <cookie> ERR inverter <id> has no host configured, whatever the operation, without a
\* connect.
C20_NoHost ==
  [][(Handling /\ Len(Parts) >= 3 /\ Configured(Parts[2]) /\ HostOf(Parts[2]) = "")
       => /\ result' = Text(<<Parts[1], "ERR", "inverter", Parts[2], "has", "no", "host",
                              "configured">>)
          /\ UNCHANGED <<cache, regs, att, okc>>]_vars

\* C20 witness: a write-many request to inv3, which has no host, got that answer
C20_Witness ==
  /\ reqPc = "exit"
  /\ payload = Line(<<"c2", "inv3", "16", "0", "1", "5">>)
  /\ result = Text(<<"c2", "ERR", "inverter", "inv3", "has", "no", "host", "configured">>)

(***************************************************************************)
(* The poll loop's messages and timing.                                    *)
(***************************************************************************)
\* the step is one _poll_inverter call of the current tick
Polling == pollPc = "cs" /\ Len(tickLog') = Len(tickLog) + 1

\* the step published a poll message
PollPublished ==
  /\ Len(published') > Len(published)
  /\ published'[Len(published')].src = "poll"

ExpectedAll(host) ==
  IF host = "h1"
  THEN <<"vpv1=230.50", "battery_soc=87", "work_mode_label=Normal_(On-Grid)", "backup=1">>
  ELSE <<"vgrid=-0.05", "grid_mode=Idle">>

\* C22: a tick polls the inverters in configuration order; each poll publishes at most
\* one message, and the poll of an inverter that answers publishes exactly one, its
\* cookie followed by OK and every pair of the telemetry; the messages of a tick are
\* published in configuration order.
C22_TickOrder ==
  /\ [][Polling
          => /\ tickLog'[pollIdx].dev = pollIdx
             /\ pollIdx' = pollIdx + 1
             /\ Len(pubNow') <= 1
             /\ tickLog'[pollIdx].tag = "ok"
                  => /\ Len(pubNow') = 1
                     /\ Tokens(pubNow'[1])
                          = <<"poll_" \o Dec(poll_seq) \o "_" \o inverters[pollIdx].id, "OK">>
                              \o ExpectedAll(inverters[pollIdx].host)]_vars
  /\ [](\A i, j \in 1 .. Len(published) :
          (i < j /\ published[i].src = "poll" /\ published[j].src = "poll")
            => \/ published[i].n < published[j].n
               \/ published[i].n = published[j].n /\ published[i].dev < published[j].dev)

\* C22 witness: a tick is over in which both inverters with a host answered, and their
\* two messages are the last two published, the first inverter's first
C22_Witness ==
  /\ TickOver /\ poll_seq = 1 /\ Len(tickLog) = 3
  /\ tickLog[1].tag = "ok" /\ tickLog[2].tag = "ok" /\ tickLog[3].tag = "skipped"
  /\ published = <<Msg("poll", 1, 1), Msg("poll", 1, 2)>>

\* C23: a tick after the first starts only when the sleep loop before it has slept
\* max(poll_interval, 5) times, whatever poll_interval is configured.
C23_MinInterval ==
  [][(pollPc = "lock" /\ pollPc' = "cs" /\ poll_seq >= 1)
       => /\ slept >= 5
          /\ slept = IF poll_interval > 5 THEN poll_interval ELSE 5]_vars

\* C23 witness: with poll_interval 0 the second tick has started after five sleeps
C23_Witness ==
  /\ poll_interval = 0 /\ inverters # <<>>
  /\ poll_seq = 2 /\ pollPc = "cs" /\ slept = 5

(***************************************************************************)
(* Named queries (DispatchSpec).                                           *)
(***************************************************************************)
\* the keys of the telemetry of the device at a host, in the order it yields them
ExpectedKeys(host) ==
  IF host = "h1"
  THEN <<"vpv1", "battery_soc", "work_mode_label", "backup">>
  ELSE <<"vgrid", "grid_mode">>

\* the pairs of the telemetry of the device at a host that a query for the group shows
ExpectedGroup(host, group) ==
  LET all == [i \in 1 .. Len(ExpectedKeys(host)) |->
                [key |-> ExpectedKeys(host)[i], token |-> ExpectedAll(host)[i]]]
      keep(v) == group = "all" \/ v.key \in SENSOR_GROUPS[group]
      kept == SelectSeq(all, keep)
  IN [i \in 1 .. Len(kept) |-> kept[i].token]

\* the payload is a telemetry query for one of the fixed groups, to an inverter served
GroupRequest == Served /\ Lower(Parts[3]) \in NamedGroups

\* C24: a telemetry query for group G to an inverter that answers yields <cookie> OK
\* and the pairs of the telemetry whose key is in the key set of G, every one of them
\* and no other, in the order of the telemetry; for all, every pair.
C24_GroupFilter ==
  [][(Handling /\ GroupRequest /\ DeviceAnswered)
       => Tokens(result')
            = <<Parts[1], "OK">> \o ExpectedGroup(HostOf(Parts[2]), Lower(Parts[3]))]_vars

\* C24 witness: c3 inv1 battery was answered with the one battery pair of the telemetry
C24_Witness ==
  /\ reqPc = "exit"
  /\ payload = Line(<<"c3", "inv1", "battery">>)
  /\ result = Text(<<"c3", "OK", "battery_soc=87">>)

\* the number of atoms of the text that are the atom a
CountOf(text, a) == Cardinality({i \in 1 .. Len(text) : text[i] = a})

\* the fields an OK response to the named query of the payload returns
FieldCount ==
  CASE Lower(Parts[3]) = "info" -> 3
    [] Lower(Parts[3]) = "settings" -> Len(SettingsData(HostOf(Parts[2])))
    [] OTHER -> Len(ExpectedGroup(HostOf(Parts[2]), Lower(Parts[3])))

\* C25: in an OK response to an info, settings or telemetry query the text after
\* <cookie> OK, split at single spaces, has one token per returned field, and no token
\* holds a whitespace character.
C25_NoWhitespace ==
  [][(Handling /\ Served /\ Lower(Parts[3]) \in (NamedGroups \cup {"info", "settings"})
        /\ Tokens(result')[2] = "OK")
       => LET fields == SubSeq(result', 5, Len(result')) IN
          /\ CountOf(fields, "\t") = 0
          /\ CountOf(fields, " ") = (IF FieldCount = 0 THEN 0 ELSE FieldCount - 1)]_vars

\* C26: a query of three tokens whose third token is neither an integer nor a command
\* word is answered <cookie> ERR unknown group ...
C26_UnknownGroup ==
  [][(Handling /\ Served /\ Len(Parts) = 3 /\ ~IsInt(Parts[3])
        /\ Lower(Parts[3]) \notin (NamedGroups \cup {"info", "settings"}))
       => LET toks == Tokens(result') IN
          /\ Len(toks) >= 4
          /\ SubSeq(toks, 1, 4) = <<Parts[1], "ERR", "unknown", "group">>]_vars

\* the registers of a range
RangeRegs(r) == r.start .. (r.start + r.count - 1)

\* the registers the discovered ranges read
Covered == UNION {RangeRegs(ranges.list[i]) : i \in 1 .. Len(ranges.list)}

\* the registers the sensors of the catalog occupy
Occupied ==
  UNION {SpanOf(catalog[i]).start .. SpanOf(catalog[i]).end : i \in 1 .. Len(catalog)}

\* range i of the discovered ranges ends where range i + 1 starts
Adjacent(i) ==
  ranges.list[i].start + ranges.list[i].count = ranges.list[i + 1].start

\* C27: no discovered range has more than 125 registers; an interval of more is cut into
\* ranges of exactly 125 followed by one remainder (300 registers give 125, 125, 50),
\* and the ranges of an interval cover it from its first sensor's start to its last
\* sensor's end without gap or overlap.
C27_BatchLimit ==
  ranges.known =>
    LET L == ranges.list
        n == Len(L)
    IN /\ \A i \in 1 .. n : L[i].count >= 1 /\ L[i].count <= 125
       /\ \A i \in 1 .. (n - 1) : L[i].start + L[i].count <= L[i + 1].start
       /\ \A i \in 1 .. (n - 1) : Adjacent(i) => L[i].count = 125
       /\ Occupied \subseteq Covered
       /\ \A i \in 1 .. n :
            /\ (i = 1 \/ ~Adjacent(i - 1))
                 => \E k \in 1 .. Len(catalog) : SpanOf(catalog[k]).start = L[i].start
            /\ (i = n \/ ~Adjacent(i))
                 => \E k \in 1 .. Len(catalog) :
                      SpanOf(catalog[k]).end = L[i].start + L[i].count - 1
       /\ catalog = <<Sensor(0, 600)>>
            => L = <<RegisterRange(0, 125), RegisterRange(125, 125),
                     RegisterRange(250, 50)>>

\* C27 witness: the ranges of a catalog whose one sensor occupies 300 registers were
\* discovered, three of them
C27_Witness ==
  /\ ranges.known
  /\ catalog = <<Sensor(0, 600)>>
  /\ Len(ranges.list) = 3
  /\ ranges.list[3] = RegisterRange(250, 50)

\* the spans of a catalog of two sensors, the one that starts first and the other
LowSpan ==
  IF SpanOf(catalog[1]).start <= SpanOf(catalog[2]).start
    THEN SpanOf(catalog[1]) ELSE SpanOf(catalog[2])

HighSpan ==
  IF SpanOf(catalog[1]).start <= SpanOf(catalog[2]).start
    THEN SpanOf(catalog[2]) ELSE SpanOf(catalog[1])

\* the unused registers between the two spans
Between == (LowSpan.end + 1) .. (HighSpan.start - 1)

\* C28: two spans with 10 unused registers between them are read as one interval, one
\* range from the start of the first to the end of the second when that fits a batch;
\* two spans with 11 unused registers between them are read apart, as two ranges when
\* each fits a batch, and no register between them is read.
C28_GapTolerance ==
  (ranges.known /\ Len(catalog) = 2) =>
    /\ Cardinality(Between) = 10
         => /\ Between \subseteq Covered
            /\ HighSpan.end - LowSpan.start + 1 <= 125
                 => ranges.list
                      = <<RegisterRange(LowSpan.start, HighSpan.end - LowSpan.start + 1)>>
    /\ Cardinality(Between) = 11
         => /\ Between \cap Covered = {}
            /\ (LowSpan.end - LowSpan.start < 125 /\ HighSpan.end - HighSpan.start < 125)
                 => ranges.list
                      = <<RegisterRange(LowSpan.start, LowSpan.end - LowSpan.start + 1),
                          RegisterRange(HighSpan.start,
                                        HighSpan.end - HighSpan.start + 1)>>

\* C28 witness: sensors at registers 0..1 and 12, ten unused registers between them,
\* were discovered as the one range of 13 registers from 0
C28_Witness ==
  /\ ranges.known
  /\ catalog = <<Sensor(0, 4), Sensor(12, 2)>>
  /\ ranges.list = <<RegisterRange(0, 13)>>

\* C29: a telemetry query for a group none of whose keys is in the telemetry of the
\* inverter, which answers, yields <cookie> OK with nothing after it but the space of
\* the format.
C29_EmptyGroup ==
  [][(Handling /\ GroupRequest /\ DeviceAnswered
        /\ ExpectedGroup(HostOf(Parts[2]), Lower(Parts[3])) = <<>>)
       => /\ result' = <<Parts[1], " ", "OK", " ">>
          /\ Tokens(result') = <<Parts[1], "OK">>]_vars

\* C29 witness: c3 inv1 energy, a group with no key in the telemetry, was answered c3 OK
C29_Witness ==
  /\ reqPc = "exit" /\ reqObs.tag = "ok"
  /\ payload = Line(<<"c3", "inv1", "energy">>)
  /\ result = <<"c3", " ", "OK", " ">>

\* the payload is one that _handle_request turns down before it asks for a connection:
\* fewer than three tokens, an id that is not configured, an inverter without a host, a
\* register request of fewer than five tokens or with a FUNC, REG or COUNT that is no
\* integer
RejectedEarly ==
  IF Len(Parts) < 3 THEN TRUE
  ELSE IF ~Configured(Parts[2]) THEN TRUE
  ELSE IF HostOf(Parts[2]) = "" THEN TRUE
  ELSE IF Lower(Parts[3]) \in (NamedGroups \cup {"info", "settings"}) THEN FALSE
  ELSE IF Len(Parts) < 5 THEN TRUE
  ELSE ~NumbersParse

\* C30: handling a request that is turned down before the connection is asked for makes
\* no connect and no device I/O and leaves the connection cache, the registers and
\* poll_seq as they were; the answer is an ERR line.
C30_RejectedFrame ==
  [][(Handling /\ RejectedEarly)
       => /\ UNCHANGED <<cache, regs, att, okc, evicted, poll_seq>>
          /\ ~reqObs'.exc
          /\ Tokens(result')[2] = "ERR"]_vars

\* C30 witness: after a tick had cached a connection, a register request with a REG that
\* is no integer was turned down
C30_Witness ==
  /\ reqPc = "exit" /\ poll_seq >= 1 /\ cache # <<>>
  /\ payload = <<"c9", " ", "inv1", " ", "3", " ", "x", " ", "1">>
  /\ result = Text(<<"c9", "ERR", "invalid", "numeric", "values">>)

\* the register request stops before its operation: its function code is none of 3, 4,
\* 6 and 16, or it is a write without a value
StopsBeforeOperation ==
  /\ RegisterRequest /\ NumbersParse
  /\ \/ IntOf(Parts[3]) \notin {3, 4, 6, 16}
     \/ IntOf(Parts[3]) \in {6, 16} /\ Len(Parts) < 6

\* the answer to a register request that stops before its operation, once connected
ValidationAnswer ==
  IF IntOf(Parts[3]) = 6 THEN Text(<<Parts[1], "ERR", "missing", "write", "value">>)
  ELSE IF IntOf(Parts[3]) = 16 THEN Text(<<Parts[1], "ERR", "missing", "write", "values">>)
  ELSE Text(<<Parts[1], "ERR", "unsupported", "function", Parts[3]>>)

\* C31: a register request with an unsupported function code, or a write without its
\* value, to an inverter that is not cached makes a connect handshake first; when the
\* handshake succeeds the connection stays cached, no register is touched and the
\* answer is the validation error; when it fails the answer is <cookie> ERR <connect
\* error> and the cache stays as it was.
C31_ConnectBeforeCheck ==
  [][(Handling /\ StopsBeforeOperation /\ ReqKey \notin DOMAIN cache)
       => /\ att'[ReqKey] = att[ReqKey] + 1
          /\ regs' = regs
          /\ okc'[ReqKey] = okc[ReqKey] + 1
               => /\ ReqKey \in DOMAIN cache'
                  /\ result' = ValidationAnswer
          /\ okc'[ReqKey] = okc[ReqKey]
               => /\ cache' = cache
                  /\ result' = Text(<<Parts[1], "ERR", "connect", "failed">>)]_vars

\* C31 witness: a request with function code 5 to inv1, not cached before, got the
\* unsupported-function answer and left the connection of inv1 cached
C31_Witness ==
  /\ reqPc = "exit" /\ ~reqObs.cached
  /\ payload = Line(<<"c9", "inv1", "5", "0", "1">>)
  /\ result = Text(<<"c9", "ERR", "unsupported", "function", "5">>)
  /\ <<"h1", DefaultPort>> \in DOMAIN cache
  /\ okc[<<"h1", DefaultPort>>] = 1

\* the step asks _connect for the key: a request that is not turned down before line
\* 294 and addresses it, or the poll of an inverter at it
Acquires(k) ==
  \/ Handling /\ ~RejectedEarly /\ ReqKey = k
  \/ /\ pollPc = "cs" /\ pollIdx <= Len(inverters) /\ pollIdx' = pollIdx + 1
     /\ inverters[pollIdx].host # ""
     /\ <<inverters[pollIdx].host, inverters[pollIdx].port>> = k

\* C32: a connect handshake that fails leaves the connection cache as it was; every
\* cached handle is the one the latest successful handshake of its key returned; and an
\* acquire of a key that is not cached, as after a failed handshake, makes a handshake.
C32_FailedConnect ==
  /\ [](\A k \in DOMAIN cache : okc[k] >= 1 /\ cache[k] = [key |-> k, gen |-> okc[k]])
  /\ [][\A k \in Keys :
          /\ (att'[k] > att[k] /\ okc'[k] = okc[k])
               => (cache' = cache /\ k \notin DOMAIN cache')
          /\ (Acquires(k) /\ k \notin DOMAIN cache) => att'[k] = att[k] + 1]_vars

\* C32 witness: the connection of inv1 is cached by the second handshake for its key,
\* the first having failed
C32_Witness ==
  /\ <<"h1", DefaultPort>> \in DOMAIN cache
  /\ att[<<"h1", DefaultPort>>] = 2
  /\ okc[<<"h1", DefaultPort>>] = 1

\* C33: every key of the connection cache is the (host, port) of a configured inverter
\* with a host, and the one handle cached under a key is a handle of that key.
C33_CacheKeys ==
  \A k \in DOMAIN cache :
    /\ k[1] # ""
    /\ \E i \in 1 .. Len(inverters) : inverters[i].host = k[1] /\ inverters[i].port = k[2]
    /\ cache[k].key = k

\* C33 witness: the connections of both inverters that have a host are cached, after a
\* request to the inverter without one was answered
C33_Witness ==
  /\ DOMAIN cache = {<<"h1", DefaultPort>>, <<"h2", DefaultPort>>}
  /\ reqPc = "exit"
  /\ payload = <<"c2", " ", "inv3", " ", "all">>

\* the request numbers of the responses published, in the order of their publication
RequestsAnswered ==
  LET IsResponse(m) == m.src = "req"
      resp == SelectSeq(published, IsResponse)
  IN [i \in 1 .. Len(resp) |-> resp[i].n]

\* a request has been handled and has left the lane, its response is not yet published
ResponsePending == reqPc = "publish"

\* C34: responses are published in the order their requests were handled, and while
\* the response of a handled request is pending, no message is published by a poll tick
\* that took the lane after the request had left it (a tick inside the lane while
\* a response is pending took the lane after that request).
C34_LaneOrder ==
  /\ [](\A i \in 1 .. Len(RequestsAnswered) : RequestsAnswered[i] = i)
  /\ [][(ResponsePending /\ PollInLane /\ published' # published)
          => (reqPc' = "idle" /\ published' = Append(published, Msg("req", reqNo, 0)))]_vars

\* the step is _poll_inverter for an inverter without a host
PollsHostless ==
  /\ pollPc = "cs" /\ pollIdx <= Len(inverters) /\ pollIdx' # pollIdx
  /\ inverters[pollIdx].host = ""

\* the inverters of the current tick for which a message was published
PublishedFor ==
  {j \in 1 .. Len(inverters) :
     \E i \in 1 .. Len(published) : published[i] = Msg("poll", poll_seq, j)}

\* C35: _poll_inverter for an inverter without a host makes no connect handshake and
\* publishes nothing, and the tick goes on with the next inverter; the tick increments
\* poll_seq whatever the hosts are, and when it is over every inverter that has a host
\* was polled and no message was published for one that has none.
C35_HostlessSkipped ==
  /\ [][PollsHostless
          => /\ UNCHANGED <<att, okc, cache, regs, published, poll_seq>>
             /\ pubNow' = <<>>
             /\ pollPc' = "cs"
             /\ pollIdx' = pollIdx + 1]_vars
  /\ [][(pollPc = "lock" /\ pollPc' = "cs") => poll_seq' = poll_seq + 1]_vars
  /\ [](TickOver
          => /\ Len(tickLog) = Len(inverters)
             /\ \A j \in 1 .. Len(inverters) :
                  /\ tickLog[j].tag = "skipped" <=> inverters[j].host = ""
                  /\ inverters[j].host = "" => j \notin PublishedFor)

\* C35 witness: the first tick over the inverters inv3 (no host) and inv1 is over: inv3
\* was skipped without a handshake, inv1 was polled and its message published
C35_Witness ==
  /\ TickOver /\ poll_seq = 1
  /\ inverters = <<Inv3, Inv1>>
  /\ tickLog[1].tag = "skipped" /\ tickLog[2].tag = "ok"
  /\ att[<<"", DefaultPort>>] = 0
  /\ published = <<Msg("poll", 1, 2)>>

\* the values an OK line carries
ValuesOf(line) == SubSeq(Tokens(line), 3, Len(Tokens(line)))

\* C36: the OK answer to a function-3 or function-4 read of COUNT registers from REG
\* carries max(COUNT, 0) values at most, whatever the length of the device's response,
\* and its values are the contents of the registers from REG on, in order.
C36_ReadBounded ==
  [][(Handling /\ ReadRequest /\ Tokens(result')[2] = "OK")
       => LET vals == ValuesOf(result') IN
          /\ Len(vals) <= (IF Count > 0 THEN Count ELSE 0)
          /\ \A i \in 1 .. Len(vals) :
               /\ Reg + i - 1 \in 0 .. (NumRegs - 1)
               /\ vals[i] = Dec(regs[ReqKey][Reg + i - 1])]_vars

\* C36 witness: the read of three registers from 0 was answered with the two values
\* the device returned
C36_Witness ==
  /\ reqPc = "exit"
  /\ payload = Line(<<"42", "inv1", "3", "0", "3">>)
  /\ result = Text(<<"42", "OK", "100", "200">>)

\* the main thread has left the loop of run()
LoopLeft == pollPc \in {"stop", "disconnect", "done"}

PostTo(api) == web'.seq # web.seq /\ web'.api = api

\* C38: the bridge that loaded a file with a top-level host and no inverters list has
\* one inverter, of id "0" and of the file's host and port, when the host is not empty
\* and none when it is empty; the bridge that loaded a file with an inverters list has
\* that list; and the file the web API saves has a host and a port and no inverters
\* list.
C38_SingleDeviceLoaded ==
  /\ []( /\ ("host" \in DOMAIN bootFile /\ "port" \in DOMAIN bootFile
               /\ "inverters" \notin DOMAIN bootFile)
            => inverters = IF bootFile.host = "" THEN <<>>
                           ELSE <<[id |-> "0", host |-> bootFile.host,
                                   port |-> bootFile.port]>>
         /\ "inverters" \in DOMAIN bootFile => inverters = bootFile.inverters )
  /\ [][(PostTo("goodwe") /\ web'.wrote)
          => DOMAIN goodweFile' = {"host", "port", "poll_interval"}]_vars

\* C38 witness: the API saved the host " h1 " with port 502 and restarted the bridge,
\* which has the one inverter "0" at h1:502
C38_Witness ==
  /\ web.api = "goodwe" /\ web.wrote /\ bootFile = goodweFile
  /\ web.posted.host = Str(" h1 ")
  /\ inverters = <<[id |-> "0", host |-> "h1", port |-> 502]>>

\* C39: a POST of a configuration for which validate_config returns errors is answered
\* 400 with that list of errors, leaves the file as it was and runs no restart; the
\* file is written and the restart run only for a configuration without errors.
C39_InvalidNotSaved ==
  [][PostTo("config")
       => LET data == web'.posted IN
          /\ (DOMAIN data # {} /\ ValidateConfig(data) # <<>>)
               => /\ web'.reply = Reply(400, "Validation failed", ValidateConfig(data))
                  /\ ~web'.wrote /\ ~web'.restart
                  /\ confFile' = confFile
          /\ (web'.wrote \/ web'.restart \/ confFile' # confFile)
               => /\ DOMAIN data # {}
                  /\ ValidateConfig(data) = <<>>
                  /\ web'.reply.code = 200]_vars

\* C39 witness: a configuration without an mqtt host, with the port abc and the QoS 3
\* was turned down with its three errors after a valid one had been written
C39_Witness ==
  /\ web.api = "config" /\ ~web.wrote /\ ~web.restart
  /\ confFile # OriginalConf
  /\ web.reply = Reply(400, "Validation failed",
                       <<"MQTT host is required", "MQTT port must be 1-65535",
                         "MQTT QoS must be 0, 1, or 2">>)

=============================================================================
